---- MODULE Spec2Model ----
(***************************************************************************)
(* File-transfer broker: identity resolution, file metadata lifecycle      *)
(* (UserFiles table), audit ledger (FileAudit table) and the request       *)
(* handlers of the JavaScript (backend/lambdas) and Go (backend/lambdas-go)*)
(* implementations.                                                        *)
(***************************************************************************)
EXTENDS Integers, Sequences, FiniteSets, TLC

VARIABLES
    files,      \* UserFiles table: [<<userId, fileId>> -> item | NoItem]
    audit,      \* FileAudit table: set of items, key (userId, timestamp)
    blobs,      \* S3 bucket: set of object keys present
    now,        \* wall clock read by new Date() / time.Now()
    slots,      \* one record per execution environment (request in flight)
    out,        \* the response being returned to a caller, with its request
    deployed,   \* the implementation deployed: "js" or "go"
    ops,        \* requests accepted so far that write to a table
    event,      \* identity resolver study: the inbound event's credentials
    resolved,   \* identity resolver study: last resolution performed
    submitted,  \* storage key study: the fileName submitted
    issued,     \* storage key study: the last key built from it
    paging,     \* page size study: the limit received, the Limit sent
    walk        \* a client following nextToken from page to page

vars ==
    <<files, audit, blobs, now, slots, out, deployed, ops, event, resolved,
      submitted, issued, paging, walk>>

\* What no handler changes.
fixed == <<deployed, event, resolved, submitted, issued, paging, walk>>

(***************************************************************************)
(* Bounds and small input domains                                          *)
(***************************************************************************)
MaxFiles == 2
MaxTime == 1
MaxOps == 3
MaxShortName == 4
MaxAsked == 201

Owners == {"A", "B"}
NoUser == ""
Ids == Owners \cup {NoUser}
FileIds == 1..MaxFiles
Times == 0..MaxTime
Slots == {"r1", "r2"}
Impls == {"js", "go"}
Kinds == {"upload", "download", "list", "delete", "audit"}

(***************************************************************************)
(* Identity resolver                                                       *)
(***************************************************************************)
NoClaims == [none |-> TRUE]
NoToken == [form |-> "absent"]

\* An event that carries no credential at all
EmptyEvent ==
    [claims |-> NoClaims, jwtClaims |-> NoClaims, authSub |-> NoUser,
     principalId |-> NoUser, identityId |-> NoUser, token |-> NoToken]

\* event.requestContext.authorizer.claims : absent or {sub, cognito:username}
ClaimsShapes == {NoClaims} \cup [sub : Ids, user : Ids]

\* event.requestContext.authorizer.jwt.claims (HTTP API shape)
JwtClaimsShapes == {NoClaims} \cup [sub : Owners, user : {NoUser}]

\* Authorization header: absent, not "Bearer x.y.z", or a three-part token
\* whose payload segment is raw-url base64, standard base64 or not base64
\* of a JSON document at all.
Tokens ==
    {NoToken, [form |-> "malformed"]}
    \cup [form : {"bearer"}, enc : {"rawurl", "std"}, sub : Ids, user : Ids]
    \cup [form : {"bearer"}, enc : {"garbage"}, sub : {NoUser}, user : {NoUser}]

Events ==
    [claims : ClaimsShapes, jwtClaims : JwtClaimsShapes, authSub : Ids,
     principalId : Ids, identityId : Ids, token : Tokens]

\* JavaScript x || y on identifiers: "" and undefined are falsy.
Or2(x, y) == IF x # NoUser THEN x ELSE y

\* Buffer.from(parts[1], "base64") + JSON.parse: accepts both alphabets,
\* throws (caught) on a payload that is not JSON.
JsDecodePayload(tok) ==
    IF tok.form = "bearer" /\ tok.enc \in {"rawurl", "std"}
    THEN Or2(tok.sub, tok.user)
    ELSE NoUser

\* claims = authorizer?.claims || authorizer?.jwt?.claims || authorizer
JsClaimsSub(ev) ==
    IF ev.claims # NoClaims THEN ev.claims.sub
    ELSE IF ev.jwtClaims # NoClaims THEN ev.jwtClaims.sub
    ELSE ev.authSub

JsClaimsUser(ev) ==
    IF ev.claims # NoClaims THEN ev.claims.user
    ELSE IF ev.jwtClaims # NoClaims THEN ev.jwtClaims.user
    ELSE NoUser

\* upload_file.mjs, download_file.mjs, delete_file.mjs, audit_file.mjs
JsResolveSubOnly(ev) == Or2(JsClaimsSub(ev), JsDecodePayload(ev.token))

\* get_files.mjs
JsResolveList(ev) ==
    Or2(Or2(Or2(Or2(JsClaimsSub(ev), JsClaimsUser(ev)), ev.principalId),
            ev.identityId),
        JsDecodePayload(ev.token))

\* common.extractUserIDFromJWT
extractUserIDFromJWT(tok) ==
    IF tok.form = "bearer" /\ tok.enc \in {"rawurl", "std"}
    THEN Or2(tok.sub, tok.user)
    ELSE NoUser

\* common.ExtractUserID
ExtractUserID(ev) ==
    IF ev.claims # NoClaims /\ ev.claims.sub # NoUser THEN ev.claims.sub
    ELSE IF ev.claims # NoClaims /\ ev.claims.user # NoUser THEN ev.claims.user
    ELSE IF ev.authSub # NoUser THEN ev.authSub
    ELSE IF ev.principalId # NoUser THEN ev.principalId
    ELSE IF ev.identityId # NoUser THEN ev.identityId
    ELSE extractUserIDFromJWT(ev.token)

\* Variant: the check tests for a literal null, which the resolver never
\* returns (it returns the empty string).
UnauthenticatedNullOnly(userId) == userId = "null"

\* if (!userId) / if userID == "": the request is answered 401
Unauthenticated(userId) == userId = NoUser

\* The identity step of handler `kind` in implementation `impl`.
ResolveUser(impl, kind, ev) ==
    IF impl = "go" THEN ExtractUserID(ev)
    ELSE IF kind = "list" THEN JsResolveList(ev)
    ELSE JsResolveSubOnly(ev)

(***************************************************************************)
(* Upload validation and storage key                                       *)
(***************************************************************************)
MAX_FILE_SIZE == 10 * 1024 * 1024
PresignExpiry == 3600
MaxNameLen == 255

ALLOWED_MIME_TYPES ==
    {"image/jpeg", "image/png", "image/gif", "image/webp", "application/pdf",
     "application/msword",
     "application/vnd.openxmlformats-officedocument.wordprocessingml.document",
     "text/plain", "application/json"}

Lower == {"a","b","c","d","e","f","g","h","i","j","k","l","m",
          "n","o","p","q","r","s","t","u","v","w","x","y","z"}
Upper == {"A","B","C","D","E","F","G","H","I","J","K","L","M",
          "N","O","P","Q","R","S","T","U","V","W","X","Y","Z"}
Digit == {"0","1","2","3","4","5","6","7","8","9"}
SafeChars == Lower \cup Upper \cup Digit \cup {".", "_", "-"}

\* Variant: the character class lets the path separator through.
ReplaceUnsafeKeepSlash(name) ==
    [i \in 1..Len(name) |->
        IF name[i] \in SafeChars \cup {"/"} THEN name[i] ELSE "_"]

\* .replace(/[^a-zA-Z0-9._-]/g, "_")
ReplaceUnsafe(name) ==
    [i \in 1..Len(name) |-> IF name[i] \in SafeChars THEN name[i] ELSE "_"]

\* .replace(/\.{2,}/g, "."): every run of dots becomes one dot. The two
\* halves are collapsed and joined; a run that spans the join is one dot.
RECURSIVE CollapseDots(_)
CollapseDots(name) ==
    IF Len(name) <= 1 THEN name
    ELSE LET mid == Len(name) \div 2
             left == CollapseDots(SubSeq(name, 1, mid))
             right == CollapseDots(SubSeq(name, mid + 1, Len(name)))
         IN  IF left[Len(left)] = "." /\ right[1] = "."
             THEN left \o Tail(right)
             ELSE left \o right

\* .substring(0, 255)
Truncate(name) ==
    IF Len(name) > MaxNameLen THEN SubSeq(name, 1, MaxNameLen) ELSE name

sanitizeFileName(fileName) == Truncate(CollapseDots(ReplaceUnsafe(fileName)))

\* `users/${userId}/uploads/${fileId}-${sanitizeFileName(fileName)}`
S3Key(userId, fileId, fileName) ==
    [prefix |-> <<"users", userId, "uploads">>,
     object |-> <<fileId, sanitizeFileName(fileName)>>]

(***************************************************************************)
(* Tables                                                                  *)
(***************************************************************************)
NoTime == 0 - 1
NoKey == [prefix |-> <<>>, object |-> <<>>]
NoItem ==
    [status |-> "none", fileName |-> <<>>, contentType |-> "", fileSize |-> 0,
     s3Key |-> NoKey, createdAt |-> NoTime, updatedAt |-> NoTime,
     deletedAt |-> NoTime]

\* The item a table holds under a key, NoItem when it holds none
ItemAt(table, userId, fileId) ==
    IF <<userId, fileId>> \in DOMAIN table THEN table[<<userId, fileId>>]
    ELSE NoItem

\* Variant: the stored content type is a default, not the submitted one.
NewItemOctetStream(userId, fileId, fileName, contentType, fileSize, t) ==
    [status |-> "pending", fileName |-> fileName,
     contentType |-> "application/octet-stream",
     fileSize |-> fileSize, s3Key |-> S3Key(userId, fileId, fileName),
     createdAt |-> t, updatedAt |-> NoTime, deletedAt |-> NoTime]

\* PutCommand on UserFiles in the upload handler
NewItem(userId, fileId, fileName, contentType, fileSize, t) ==
    [status |-> "pending", fileName |-> fileName, contentType |-> contentType,
     fileSize |-> fileSize, s3Key |-> S3Key(userId, fileId, fileName),
     createdAt |-> t, updatedAt |-> NoTime, deletedAt |-> NoTime]

\* Variant: the update expression sets the two instants and omits #status.
MarkDeletedInstantsOnly(item, tDeleted, tUpdated) ==
    [item EXCEPT !.deletedAt = tDeleted, !.updatedAt = tUpdated]

\* Variant: the write replaces the item with one carrying the three
\* attributes only (a PutCommand instead of an UpdateCommand).
MarkDeletedReplacing(item, tDeleted, tUpdated) ==
    [NoItem EXCEPT !.status = "deleted", !.deletedAt = tDeleted,
                   !.updatedAt = tUpdated]

\* UpdateCommand "SET #status = :deleted, deletedAt = .., updatedAt = .."
\* (an upsert: it sets the three attributes on whatever the key holds)
MarkDeleted(item, tDeleted, tUpdated) ==
    [item EXCEPT !.status = "deleted", !.deletedAt = tDeleted,
                 !.updatedAt = tUpdated]

\* PutCommand on FileAudit: the item replaces any item with the same
\* (userId, timestamp) key
AuditPut(ledger, entry) ==
    {e \in ledger : ~(e.userId = entry.userId /\ e.timestamp = entry.timestamp)}
    \cup {entry}

\* logAuditEvent's item
AuditItem(userId, t, fileId, action, metadata) ==
    [userId |-> userId, timestamp |-> t, fileId |-> fileId, action |-> action,
     metadata |-> metadata]

(***************************************************************************)
(* DynamoDB Query (ScanIndexForward = false, Limit, ExclusiveStartKey)     *)
(***************************************************************************)
NoCursor == [kind |-> "none", userId |-> NoUser, sk |-> 0]
GarbageCursor == [kind |-> "garbage", userId |-> NoUser, sk |-> 0]
KeyCursor(userId, sk) == [kind |-> "key", userId |-> userId, sk |-> sk]

Min(a, b) == IF a < b THEN a ELSE b

\* The first `limit` elements of a sequence: the items DynamoDB evaluates.
Page(seq, limit) == SubSeq(seq, 1, Min(Len(seq), limit))

\* LastEvaluatedKey: set when the evaluation stopped at Limit
NoSortKey == 0 - 1
LastEvaluated(page, limit) == IF Len(page) = limit THEN page[limit] ELSE NoSortKey

\* Sort keys of the partition of `userId` in UserFiles, descending.
RECURSIVE FileKeysDesc(_, _, _)
FileKeysDesc(table, userId, f) ==
    IF f < 1 THEN <<>>
    ELSE (IF ItemAt(table, userId, f) # NoItem THEN <<f>> ELSE <<>>)
         \o FileKeysDesc(table, userId, f - 1)

\* Variant: the query carries no FilterExpression.
QueryFilesUnfiltered(table, userId, limit, start) ==
    IF limit < 1 \/ (start.kind = "key" /\ start.userId # userId)
    THEN [ok |-> FALSE, keys |-> <<>>, lek |-> NoSortKey]
    ELSE LET all == FileKeysDesc(table, userId, MaxFiles)
             rest == IF start.kind = "key"
                     THEN SelectSeq(all, LAMBDA f : f < start.sk)
                     ELSE all
             page == Page(rest, limit)
         IN [ok |-> TRUE, keys |-> page, lek |-> LastEvaluated(page, limit)]

\* Query on UserFiles: KeyCondition userId = :userId, Filter #status <> :deleted.
\* A start key of another partition, or a Limit below 1, is a
\* ValidationException.
QueryFiles(table, userId, limit, start) ==
    IF limit < 1 \/ (start.kind = "key" /\ start.userId # userId)
    THEN [ok |-> FALSE, keys |-> <<>>, lek |-> NoSortKey]
    ELSE LET all == FileKeysDesc(table, userId, MaxFiles)
             rest == IF start.kind = "key"
                     THEN SelectSeq(all, LAMBDA f : f < start.sk)
                     ELSE all
             page == Page(rest, limit)
         IN [ok |-> TRUE,
             keys |-> SelectSeq(page,
                         LAMBDA f : ItemAt(table, userId, f).status # "deleted"),
             lek |-> LastEvaluated(page, limit)]

\* get_files response item
FileView(fileId, item) ==
    [fileId |-> fileId, fileName |-> item.fileName,
     contentType |-> item.contentType, fileSize |-> item.fileSize,
     status |-> item.status, createdAt |-> item.createdAt,
     updatedAt |-> item.updatedAt]

\* Page-size parameter: absent, an integer literal, or other text.
NoLimit == [kind |-> "absent", n |-> 0]
IntLimit(n) == [kind |-> "int", n |-> n]

DEFAULT_PAGE_SIZE == 20
MAX_PAGE_SIZE == 100

\* Variant: the parsed limit is not capped.
JsLimitUncapped(l, default) ==
    IF l.kind = "int" /\ l.n # 0 THEN l.n ELSE default

\* let limit = parseInt(queryParams.limit) || DEFAULT; Math.min(limit, MAX)
JsLimit(l, default) ==
    Min(IF l.kind = "int" /\ l.n # 0 THEN l.n ELSE default, MAX_PAGE_SIZE)

\* strconv.Atoi(limitStr) when present; if limit > max then max
GoLimit(l, default) ==
    Min(IF l.kind = "int" THEN l.n ELSE default, MAX_PAGE_SIZE)

(***************************************************************************)
(* Requests, responses and execution environments                          *)
(***************************************************************************)
NoCred == [op |-> "none"]

\* getSignedUrl(s3Client, new PutObjectCommand({Key, ContentType,
\* ContentLength}), {expiresIn: 3600})
PresignPut(key, contentType, fileSize) ==
    [op |-> "put", key |-> key, contentType |-> contentType,
     contentLength |-> fileSize, expiresIn |-> PresignExpiry]

\* getSignedUrl(s3Client, new GetObjectCommand({Key,
\* ResponseContentDisposition}), {expiresIn: 3600})
PresignGet(key, fileName) ==
    [op |-> "get", key |-> key, disposition |-> <<"attachment", fileName>>,
     expiresIn |-> PresignExpiry]

NoBg == [action |-> "none"]
NoReq == [none |-> TRUE]

IdleSlot ==
    [pc |-> "idle", kind |-> "", impl |-> "", event |-> EmptyEvent,
     userId |-> NoUser, req |-> NoReq,
     fileId |-> 0, file |-> NoItem, cred |-> NoCred, s3Error |-> FALSE,
     bg |-> NoBg, since |-> NoTime, removed |-> FALSE]

\* buildResponse(statusCode, body), with the request it answers and the
\* error the handler logged server-side before answering ("" when none)
Response(s, kind, impl, ev, userId, req, status, body) ==
    [slot |-> s, kind |-> kind, impl |-> impl, event |-> ev, userId |-> userId,
     req |-> req, status |-> status, body |-> body, logged |-> ""]

NoOut == Response("", "", "", EmptyEvent, NoUser, NoReq, 0, [error |-> ""])

Err(msg) == [error |-> msg]
Unauthorized == Err("Unauthorized: userId not found")
Internal == Err("Internal server error")
NotFound == Err("File not found")
\* Variant: a deleted record is reported with the message of a missing one.
GoneAsMissing == Err("File not found")
Gone == Err("File has been deleted")
AlreadyDeleted == Err("File is already deleted")

\* Variant: the catch block puts the error it caught in the body.
CatchBodyDetailed(error) ==
    [error |-> "Internal server error", message |-> error]

\* The body the handler's catch block / err != nil branch answers with,
\* whatever the error: { error: "Internal server error" }.
CatchBody(error) == Internal

\* catch (error) { console.error("Error ..", error);
\*                 return buildResponse(500, { error: "Internal server error" }) }
\* log.Printf("..: %v", err); return BuildErrorResponse(500, ..), nil
Catch(resp, error) ==
    [resp EXCEPT !.body = CatchBody(error), !.logged = error]

\* The goroutine started by `go logAuditEvent(...)`: the entry it will
\* write, its timestamp read when it runs.
Pending(userId, fileId, action, metadata) ==
    [userId |-> userId, fileId |-> fileId, action |-> action,
     metadata |-> metadata]

UploadMeta(item) ==
    [fileName |-> item.fileName, contentType |-> item.contentType,
     fileSize |-> item.fileSize, s3Key |-> item.s3Key]
DownloadMeta(item) == [fileName |-> item.fileName, s3Key |-> item.s3Key]
DeleteMeta(item, hardDelete) ==
    [fileName |-> item.fileName, s3Key |-> item.s3Key,
     hardDelete |-> hardDelete]

\* The handler returns: the environment becomes idle (keeping a goroutine
\* that is still to run) and the response goes to the caller.
Return(s, resp, bg) ==
    /\ slots' = [slots EXCEPT ![s] =
                    [IdleSlot EXCEPT !.bg = bg,
                                     !.since = IF bg = NoBg THEN NoTime ELSE now]]
    /\ out' = resp

\* The handler awaits its next call.
Await(s, slot) ==
    /\ slots' = [slots EXCEPT ![s] = slot]
    /\ out' = out

\* A response is handed to the caller before anything else happens.
Ready == out = NoOut
Free(s) == Ready /\ slots[s].pc = "idle" /\ slots[s].bg = NoBg

\* The request is accepted and will write: it counts against MaxOps.
Accept == ops < MaxOps /\ ops' = ops + 1
Reject == ops' = ops

\* Variant: the identifier is not unique (it may be one already in use).
ReusedIds == FileIds

\* randomUUID() / uuid.New(): an identifier no item carries and no upload in
\* flight has drawn
FreshIds ==
    {f \in FileIds :
        /\ \A o \in Owners : files[<<o, f>>] = NoItem
        /\ \A s \in Slots : ~(slots[s].kind = "upload" /\ slots[s].fileId = f)}

(***************************************************************************)
(* issue-upload                                                            *)
(***************************************************************************)
\* Variant: a file of exactly the maximum size is refused too.
TooLargeInclusive(fileSize) == fileSize >= MAX_FILE_SIZE

\* if (fileSize > MAX_FILE_SIZE) / if req.FileSize > maxFileSize
TooLarge(fileSize) == fileSize > MAX_FILE_SIZE

SizeError == Err("File size exceeds maximum allowed (10 MB)")

\* Input validation of the upload handler: the rejection, or status 0.
UploadReject(impl, rq) ==
    IF rq.fileName = <<>> \/ rq.contentType = "" \/ rq.fileSize = 0
    THEN [status |-> 400,
          body |-> Err("Missing required fields: fileName, contentType, fileSize")]
    ELSE IF TooLarge(rq.fileSize)
    THEN [status |-> 400, body |-> SizeError]
    ELSE IF rq.contentType \notin ALLOWED_MIME_TYPES
    THEN [status |-> 400,
          body |-> IF impl = "js"
                   THEN [error |-> "Content type is not allowed",
                         contentType |-> rq.contentType,
                         allowedTypes |-> ALLOWED_MIME_TYPES]
                   ELSE [error |-> "Content type is not allowed",
                         contentType |-> rq.contentType]]
    ELSE [status |-> 0, body |-> Err("")]

UploadBody(fileId, item, cred) ==
    [presignedUrl |-> cred, fileId |-> fileId, s3Key |-> item.s3Key,
     expiresIn |-> PresignExpiry]

\* Variant: the result of the presign is not checked.
AfterPresignIgnored(ok) == "put"

\* const presignedUrl = await getSignedUrl(..) inside the handler's try /
\* if err != nil { return BuildErrorResponse(500, ..) }: a failed presign
\* ends the handler, otherwise it goes on to the metadata write.
AfterPresign(ok) == IF ok THEN "put" ELSE "failed"

\* Identity, validation, the file id and storage key, and the presign.
UploadStart(s, In) ==
    /\ Free(s)
    /\ \E ev \in In.events, rq \in In.uploads,
          fid \in FreshIds \cup {0}, presignOk \in In.ok :
        LET impl == deployed
            u == ResolveUser(impl, "upload", ev)
            rej == UploadReject(impl, rq)
            key == S3Key(u, fid, rq.fileName)
            cred == IF presignOk
                    THEN PresignPut(key, rq.contentType, rq.fileSize)
                    ELSE NoCred
            R(status, body) == Response(s, "upload", impl, ev, u, rq, status, body)
        IN  /\ (fid = 0) <=> (Unauthenticated(u) \/ rej.status # 0)
            /\ IF Unauthenticated(u)
               THEN Return(s, R(401, Unauthorized), NoBg) /\ Reject
               ELSE IF rej.status # 0
               THEN Return(s, R(rej.status, rej.body), NoBg) /\ Reject
               ELSE IF AfterPresign(presignOk) = "failed"
               THEN Return(s, Catch(R(500, Internal), "presign"), NoBg) /\ Reject
               ELSE /\ Accept
                    /\ Await(s, [IdleSlot EXCEPT
                            !.pc = AfterPresign(presignOk), !.kind = "upload",
                            !.impl = impl, !.event = ev, !.userId = u,
                            !.req = rq, !.fileId = fid, !.cred = cred])
    /\ UNCHANGED <<files, audit, blobs, now, fixed>>

\* The metadata PutCommand / PutItem on UserFiles, createdAt read from the
\* clock when the item is built; a failure is answered 500.
UploadPut(s, In) ==
    /\ Ready
    /\ slots[s].pc = "put"
    /\ \E ok \in In.ok :
        LET sl == slots[s]
            item == NewItem(sl.userId, sl.fileId, sl.req.fileName,
                            sl.req.contentType, sl.req.fileSize, now)
            R(status, body) ==
                Response(s, "upload", sl.impl, sl.event, sl.userId, sl.req,
                         status, body)
        IN  IF ~ok
            THEN Return(s, Catch(R(500, Internal), "UserFiles"), NoBg) /\ UNCHANGED files
            ELSE /\ files' = [files EXCEPT ![<<sl.userId, sl.fileId>>] = item]
                 /\ IF sl.impl = "js"
                    THEN Await(s, [sl EXCEPT !.pc = "audit", !.file = item,
                                             !.since = now])
                    ELSE Return(s, R(200, UploadBody(sl.fileId, item, sl.cred)),
                                Pending(sl.userId, sl.fileId, "upload",
                                        UploadMeta(item)))
    /\ UNCHANGED <<audit, blobs, now, ops, fixed>>

(***************************************************************************)
(* issue-download                                                          *)
(***************************************************************************)
DownloadBody(item, cred) ==
    [presignedUrl |-> cred, fileName |-> item.fileName,
     contentType |-> item.contentType, fileSize |-> item.fileSize,
     expiresIn |-> PresignExpiry]

\* Variant: the record is looked up by fileId alone, in any partition.
GetItemAnyOwner(userId, fileId) ==
    IF \E o \in Owners : ItemAt(files, o, fileId) # NoItem
    THEN ItemAt(files, CHOOSE o \in Owners : ItemAt(files, o, fileId) # NoItem,
                fileId)
    ELSE NoItem

\* GetCommand on UserFiles with Key {userId, fileId}
GetItem(userId, fileId) == ItemAt(files, userId, fileId)

\* Variant: the status of the record is not looked at.
IsDeletedUnchecked(item) == FALSE

\* if (file.status === "deleted") / if file.Status == "deleted", on the
\* item the GetCommand returned
IsDeleted(item) == item.status = "deleted"

\* Variant: a refused download is recorded as an access attempt.
RefusedAuditAttempt(userId, fileId) ==
    Pending(userId, fileId, "access_attempt", [reason |-> "refused"])

\* The download handler returns its 404 before any call of logAuditEvent:
\* a refused download leaves no audit write behind.
RefusedAudit(userId, fileId) == NoBg

\* Identity, validation, GetCommand and presign.
DownloadStart(s, In) ==
    /\ Free(s)
    /\ \E ev \in In.events, fid \in In.fileIds,
          getOk \in In.ok, presignOk \in In.ok :
        LET impl == deployed
            u == ResolveUser(impl, "download", ev)
            rq == [fileId |-> fid]
            item == GetItem(u, fid)
            cred == PresignGet(item.s3Key, item.fileName)
            R(status, body) == Response(s, "download", impl, ev, u, rq, status, body)
        IN  IF Unauthenticated(u) THEN Return(s, R(401, Unauthorized), NoBg) /\ Reject
            ELSE IF fid = 0
            THEN Return(s, R(400, Err("Missing required field: fileId")), NoBg) /\ Reject
            ELSE IF ~getOk THEN Return(s, Catch(R(500, Internal), "UserFiles"), NoBg) /\ Reject
            ELSE IF item = NoItem
            THEN Return(s, R(404, NotFound), RefusedAudit(u, fid)) /\ Reject
            ELSE IF IsDeleted(item)
            THEN Return(s, R(404, Gone), RefusedAudit(u, fid)) /\ Reject
            ELSE IF ~presignOk THEN Return(s, Catch(R(500, Internal), "presign"), NoBg) /\ Reject
            ELSE IF impl = "js"
            THEN /\ Accept
                 /\ Await(s, [IdleSlot EXCEPT
                        !.pc = "audit", !.kind = "download", !.impl = impl,
                        !.since = now,
                        !.event = ev,
                        !.userId = u, !.req = rq, !.fileId = fid, !.file = item,
                        !.cred = cred])
            ELSE /\ Accept
                 /\ Return(s, R(200, DownloadBody(item, cred)),
                           Pending(u, fid, "download", DownloadMeta(item)))
    /\ UNCHANGED <<files, audit, blobs, now, fixed>>

(***************************************************************************)
(* soft-delete                                                             *)
(***************************************************************************)
DeleteBody(fileId, item) ==
    [message |-> "File deleted successfully", fileId |-> fileId,
     fileName |-> item.fileName]

\* Identity, validation and GetCommand.
DeleteStart(s, In) ==
    /\ Free(s)
    /\ \E ev \in In.events, fid \in In.fileIds,
          hard \in In.hard, getOk \in In.ok :
        LET impl == deployed
            u == ResolveUser(impl, "delete", ev)
            rq == [fileId |-> fid, hardDelete |-> hard]
            item == GetItem(u, fid)
            R(status, body) == Response(s, "delete", impl, ev, u, rq, status, body)
        IN  IF Unauthenticated(u) THEN Return(s, R(401, Unauthorized), NoBg) /\ Reject
            ELSE IF fid = 0
            THEN Return(s, R(400, Err("Missing required field: fileId")), NoBg) /\ Reject
            ELSE IF ~getOk THEN Return(s, Catch(R(500, Internal), "UserFiles"), NoBg) /\ Reject
            ELSE IF item = NoItem
            THEN Return(s, R(404, NotFound), NoBg) /\ Reject
            ELSE IF item.status = "deleted"
            THEN Return(s, R(400, AlreadyDeleted), NoBg) /\ Reject
            ELSE /\ Accept
                 /\ Await(s, [IdleSlot EXCEPT
                        !.pc = "s3delete", !.kind = "delete", !.impl = impl,
                        !.event = ev,
                        !.userId = u, !.req = rq, !.fileId = fid, !.file = item])
    /\ UNCHANGED <<files, audit, blobs, now, fixed>>

\* Variant: a failed blob deletion ends the handler.
AfterS3DeleteAbort(ok) == IF ok THEN "update" ELSE "failed"

\* catch (s3Error) { console.error(..) } / log.Printf("S3 delete error"):
\* "Continue with DynamoDB update even if S3 delete fails"
AfterS3Delete(ok) == "update"

\* DeleteObjectCommand on the record's s3Key; a failure is logged only.
\* removed records that the call took the record's bytes out of the store.
DeleteBlob(s, In) ==
    /\ Ready
    /\ slots[s].pc = "s3delete"
    /\ \E ok \in In.blobOk :
        /\ blobs' = IF ok THEN blobs \ {slots[s].file.s3Key} ELSE blobs
        /\ Await(s, [slots[s] EXCEPT !.pc = AfterS3Delete(ok),
                                     !.s3Error = ~ok,
                                     !.removed =
                                        ok /\ slots[s].file.s3Key \in blobs])
    /\ UNCHANGED <<files, audit, now, ops, fixed>>

\* The instants read for :deletedAt and :updatedAt. JavaScript evaluates
\* new Date() twice, so the clock may advance between the two; Go reads
\* time.Now() once.
UpdateInstants(impl) ==
    IF impl = "js"
    THEN {<<now, t>> : t \in {now, now + 1} \cap Times}
    ELSE {<<now, now>>}

\* Variant: the update carries ConditionExpression "#status <> :deleted".
UpdateAcceptedIfLive(item) == item.status # "deleted"

\* The UpdateCommand / UpdateItem has no ConditionExpression: the store
\* applies it whatever the item holds by now.
UpdateAccepted(item) == TRUE

\* UpdateCommand marking the record deleted.
DeleteUpdate(s, In) ==
    /\ Ready
    /\ slots[s].pc = "update"
    /\ \E ok \in In.ok, ts \in UpdateInstants(slots[s].impl) :
        LET sl == slots[s]
            k == <<sl.userId, sl.fileId>>
            R(status, body) ==
                Response(s, "delete", sl.impl, sl.event, sl.userId, sl.req,
                         status, body)
        IN  IF ~ok \/ ~UpdateAccepted(files[k])
            THEN /\ Return(s, Catch(R(500, Internal), "UserFiles"), NoBg)
                 /\ UNCHANGED <<files, now>>
            ELSE /\ files' = [files EXCEPT ![k] = MarkDeleted(files[k], ts[1], ts[2])]
                 /\ now' = ts[2]
                 /\ IF sl.impl = "js"
                    THEN Await(s, [sl EXCEPT !.pc = "audit", !.since = ts[2]])
                    ELSE Return(s, R(200, DeleteBody(sl.fileId, sl.file)),
                                Pending(sl.userId, sl.fileId, "delete",
                                        DeleteMeta(sl.file, sl.req.hardDelete)))
    /\ UNCHANGED <<audit, blobs, ops, fixed>>

(***************************************************************************)
(* Audit side effect of the lifecycle handlers                             *)
(***************************************************************************)
SideMeta(sl) ==
    IF sl.kind = "upload" THEN UploadMeta(sl.file)
    ELSE IF sl.kind = "download" THEN DownloadMeta(sl.file)
    ELSE DeleteMeta(sl.file, sl.req.hardDelete)

SuccessBody(sl) ==
    IF sl.kind = "upload" THEN UploadBody(sl.fileId, sl.file, sl.cred)
    ELSE IF sl.kind = "download" THEN DownloadBody(sl.file, sl.cred)
    ELSE DeleteBody(sl.fileId, sl.file)

\* Variant: the store assigns the sort key when it applies the write.
StampTimesAtWrite(since) == {now}

\* timestamp: new Date().toISOString() / time.Now().UTC().Format(..) is read
\* by logAuditEvent before it sends the write: the instant lies between the
\* moment logAuditEvent was called (the goroutine started) and the moment the
\* store applies the PutCommand.
StampTimes(since) == since..now

\* Variant: a failed audit write fails the operation.
AfterAuditSurfaced(ok, sl) ==
    IF ok THEN [status |-> 200, body |-> SuccessBody(sl)]
    ELSE [status |-> 500, body |-> Internal]

\* logAuditEvent's catch block logs the error ("Do not fail the main
\* operation if audit logging fails"); the handler builds its 200 response.
AfterAudit(ok, sl) == [status |-> 200, body |-> SuccessBody(sl)]

\* await logAuditEvent(userId, fileId, action, metadata), then the 200
\* response; a failed PutCommand is caught and logged.
LogAuditEvent(s, In) ==
    /\ Ready
    /\ slots[s].pc = "audit"
    /\ \E ok \in In.ok, t \in StampTimes(slots[s].since) :
        LET sl == slots[s]
            entry == AuditItem(sl.userId, t, sl.fileId, sl.kind, SideMeta(sl))
        IN  /\ audit' = IF ok THEN AuditPut(audit, entry) ELSE audit
            /\ Return(s, Response(s, sl.kind, sl.impl, sl.event, sl.userId,
                                  sl.req, AfterAudit(ok, sl).status,
                                  AfterAudit(ok, sl).body), NoBg)
    /\ UNCHANGED <<files, blobs, now, ops, fixed>>

\* The goroutine of `go logAuditEvent(...)` runs: PutItem with the time
\* read now; an error is logged only.
GoAuditRun(s, In) ==
    /\ Ready
    /\ slots[s].bg # NoBg
    /\ \E ok \in In.ok, t \in StampTimes(slots[s].since) :
        LET p == slots[s].bg
            entry == AuditItem(p.userId, t, p.fileId, p.action, p.metadata)
        IN  audit' = IF ok THEN AuditPut(audit, entry) ELSE audit
    /\ slots' = [slots EXCEPT ![s].bg = NoBg, ![s].since = NoTime]
    /\ UNCHANGED <<files, blobs, now, out, ops, fixed>>

\* The execution environment is frozen after the response and reclaimed
\* before the goroutine is scheduled.
GoAuditLost(s) ==
    /\ Ready
    /\ slots[s].bg # NoBg
    /\ slots[s].pc = "idle"
    /\ slots' = [slots EXCEPT ![s].bg = NoBg, ![s].since = NoTime]
    /\ UNCHANGED <<files, audit, blobs, now, out, ops, fixed>>

(***************************************************************************)
(* list                                                                    *)
(***************************************************************************)
\* JSON.parse(Buffer.from(nextToken, "base64")) throws on a malformed token
\* (the handler answers 500); the Go handler ignores a token it cannot decode.
StartKey(impl, cursor) ==
    IF cursor.kind = "garbage"
    THEN (IF impl = "js" THEN [ok |-> FALSE, key |-> NoCursor]
                         ELSE [ok |-> TRUE, key |-> NoCursor])
    ELSE [ok |-> TRUE, key |-> cursor]

PageLimit(impl, l, default) ==
    IF impl = "js" THEN JsLimit(l, default) ELSE GoLimit(l, default)

NextToken(userId, lek) ==
    IF lek = NoSortKey THEN NoCursor ELSE KeyCursor(userId, lek)

ListBody(userId, res) ==
    [files |-> [i \in 1..Len(res.keys) |->
                    FileView(res.keys[i], ItemAt(files, userId, res.keys[i]))],
     count |-> Len(res.keys),
     nextToken |-> NextToken(userId, res.lek)]

\* GET /files: identity, pagination parameters, QueryCommand, response.
ListFiles(s, In) ==
    /\ Free(s)
    /\ \E ev \in In.events, rq \in In.lists, queryOk \in In.ok :
        LET impl == deployed
            u == ResolveUser(impl, "list", ev)
            start == StartKey(impl, rq.cursor)
            res == QueryFiles(files, u, PageLimit(impl, rq.limit, DEFAULT_PAGE_SIZE),
                              start.key)
            R(status, body) == Response(s, "list", impl, ev, u, rq, status, body)
        IN  IF Unauthenticated(u) THEN Return(s, R(401, Unauthorized), NoBg)
            ELSE IF ~start.ok \/ ~queryOk \/ ~res.ok
            THEN Return(s, Catch(R(500, Internal), IF start.ok THEN "UserFiles" ELSE "nextToken"),
                        NoBg)
            ELSE Return(s, R(200, ListBody(u, res)), NoBg)
    /\ UNCHANGED <<files, audit, blobs, now, ops, fixed>>

(***************************************************************************)
(* audit endpoint                                                          *)
(***************************************************************************)
AUDIT_DEFAULT_LIMIT == 50

validActions == {"view", "download", "upload", "delete", "share", "access_attempt"}

\* Query filters; an absent filter is NoTime / 0 / "".
NoParams ==
    [limit |-> NoLimit, startDate |-> NoTime, endDate |-> NoTime, fileId |-> 0,
     action |-> "", cursor |-> NoCursor]

\* {...queryStringParameters, ...body}: a key of the body wins
MergeParams(qs, body) ==
    [limit |-> IF body.limit # NoLimit THEN body.limit ELSE qs.limit,
     startDate |-> IF body.startDate # NoTime THEN body.startDate ELSE qs.startDate,
     endDate |-> IF body.endDate # NoTime THEN body.endDate ELSE qs.endDate,
     fileId |-> IF body.fileId # 0 THEN body.fileId ELSE qs.fileId,
     action |-> IF body.action # "" THEN body.action ELSE qs.action,
     cursor |-> IF body.cursor # NoCursor THEN body.cursor ELSE qs.cursor]

InRange(t, lo, hi) ==
    /\ (lo # NoTime => t >= lo)
    /\ (hi # NoTime => t <= hi)

AuditAt(ledger, userId, t) ==
    CHOOSE e \in ledger : e.userId = userId /\ e.timestamp = t

\* Sort keys of the partition of `userId` in FileAudit that satisfy the
\* range condition, descending.
RECURSIVE AuditKeysDesc(_, _, _, _, _)
AuditKeysDesc(ledger, userId, lo, hi, t) ==
    IF t < 0 THEN <<>>
    ELSE (IF InRange(t, lo, hi)
             /\ \E e \in ledger : e.userId = userId /\ e.timestamp = t
          THEN <<t>> ELSE <<>>)
         \o AuditKeysDesc(ledger, userId, lo, hi, t - 1)

\* Query on FileAudit: KeyCondition userId = :userId [AND #timestamp
\* BETWEEN / >= / <=], optional FilterExpression on fileId and action.
\* ValidationException: Limit below 1, a start key of another partition or
\* outside the range condition, BETWEEN with its bounds out of order.
QueryAudit(ledger, userId, limit, lo, hi, fileId, action, start) ==
    IF \/ limit < 1
       \/ (start.kind = "key" /\ start.userId # userId)
       \/ (start.kind = "key" /\ ~InRange(start.sk, lo, hi))
       \/ (lo # NoTime /\ hi # NoTime /\ lo > hi)
    THEN [ok |-> FALSE, keys |-> <<>>, lek |-> NoSortKey]
    ELSE LET all == AuditKeysDesc(ledger, userId, lo, hi, MaxTime)
             rest == IF start.kind = "key"
                     THEN SelectSeq(all, LAMBDA t : t < start.sk)
                     ELSE all
             page == Page(rest, limit)
             Keep(t) == LET e == AuditAt(ledger, userId, t)
                        IN  /\ (fileId # 0 => e.fileId = fileId)
                            /\ (action # "" => e.action = action)
         IN [ok |-> TRUE,
             keys |-> SelectSeq(page, Keep),
             lek |-> LastEvaluated(page, limit)]

AuditListBody(userId, res) ==
    [auditLogs |-> [i \in 1..Len(res.keys) |-> AuditAt(audit, userId, res.keys[i])],
     count |-> Len(res.keys),
     nextToken |-> NextToken(userId, res.lek)]

\* getAuditLogs(userId, queryParams)
getAuditLogs(userId, p, start) ==
    QueryAudit(audit, userId, JsLimit(p.limit, AUDIT_DEFAULT_LIMIT),
               p.startDate, p.endDate, p.fileId, p.action, start)

\* handleGetAuditLogs: the date range only, no fileId / action filter.
\* ExpressionAttributeNames always declares "#timestamp"; when neither date
\* is given no expression uses it, which DynamoDB rejects with a
\* ValidationException (a name declared and unused).
handleGetAuditLogs(userId, p, start) ==
    IF p.startDate = NoTime /\ p.endDate = NoTime
    THEN [ok |-> FALSE, keys |-> <<>>, lek |-> NoSortKey]
    ELSE QueryAudit(audit, userId, GoLimit(p.limit, AUDIT_DEFAULT_LIMIT),
                    p.startDate, p.endDate, 0, "", start)

\* Variant: a key the client supplied is kept.
MergeMetaClientWins(meta, sourceIp, userAgent) ==
    [k \in DOMAIN meta \cup {"ipAddress", "userAgent"} |->
        IF k \in DOMAIN meta THEN meta[k]
        ELSE IF k = "ipAddress" THEN (IF sourceIp = "" THEN "unknown" ELSE sourceIp)
        ELSE (IF userAgent = "" THEN "unknown" ELSE userAgent)]

\* handleCreateAuditLog: the request context's address and agent are
\* written over whatever the client sent under those keys.
MergeMeta(meta, sourceIp, userAgent) ==
    [k \in DOMAIN meta \cup {"ipAddress", "userAgent"} |->
        IF k = "ipAddress" THEN (IF sourceIp = "" THEN "unknown" ELSE sourceIp)
        ELSE IF k = "userAgent" THEN (IF userAgent = "" THEN "unknown" ELSE userAgent)
        ELSE meta[k]]

CreatedBody(entry) ==
    [message |-> "Audit log created successfully",
     auditEntry |-> [userId |-> entry.userId, timestamp |-> entry.timestamp,
                     fileId |-> entry.fileId, action |-> entry.action]]

\* Variant: the append reports success whatever PutItem returned.
AppendOutcomeSwallowed(ok, entry) ==
    [status |-> 201, body |-> CreatedBody(entry)]

\* handleCreateAuditLog after PutItem: err != nil is answered 500
\* "Internal server error", otherwise 201 with the entry's summary.
AppendOutcome(ok, entry) ==
    IF ok THEN [status |-> 201, body |-> CreatedBody(entry)]
    ELSE [status |-> 500, body |-> Internal]

\* /files/audit: identity, method routing, query or append.
AuditRequest(s, In) ==
    /\ Free(s)
    /\ \E ev \in In.events, rq \in In.audits, ok \in In.ok :
        LET impl == deployed
            u == ResolveUser(impl, "audit", ev)
            R(status, body) == Response(s, "audit", impl, ev, u, rq, status, body)
            p == IF impl = "js" /\ rq.method = "POST"
                 THEN MergeParams(rq.qs, rq.body) ELSE rq.qs
            start == StartKey(impl, p.cursor)
            res == IF impl = "js" THEN getAuditLogs(u, p, start.key)
                   ELSE handleGetAuditLogs(u, p, start.key)
            entry == AuditItem(u, now, rq.body.fileId, rq.body.action,
                               MergeMeta(rq.body.metadata, rq.sourceIp, rq.userAgent))
        IN  IF Unauthenticated(u)
            THEN Return(s, R(401, Unauthorized), NoBg) /\ UNCHANGED <<audit, ops>>
            ELSE IF rq.method \notin {"GET", "POST"}
            THEN /\ Return(s, R(405, Err("Method not allowed")), NoBg)
                 /\ UNCHANGED <<audit, ops>>
            ELSE IF impl = "js" \/ rq.method = "GET"
            THEN /\ UNCHANGED <<audit, ops>>
                 /\ IF ~start.ok \/ ~ok \/ ~res.ok
                    THEN Return(s, Catch(R(500, Internal), IF start.ok THEN "FileAudit"
                                            ELSE "nextToken"), NoBg)
                    ELSE Return(s, R(200, AuditListBody(u, res)), NoBg)
            ELSE IF rq.body.fileId = 0 \/ rq.body.action = ""
            THEN /\ Return(s, R(400, Err("Missing required fields: fileId, action")), NoBg)
                 /\ UNCHANGED <<audit, ops>>
            ELSE IF rq.body.action \notin validActions
            THEN /\ Return(s, R(400, Err("Invalid action. Must be one of: view, download, upload, delete, share, access_attempt")), NoBg)
                 /\ UNCHANGED <<audit, ops>>
            ELSE IF ~ok
            THEN /\ Return(s, [R(AppendOutcome(ok, entry).status,
                                 AppendOutcome(ok, entry).body)
                                  EXCEPT !.logged = "FileAudit"], NoBg)
                 /\ UNCHANGED <<audit, ops>>
            ELSE /\ Accept
                 /\ audit' = AuditPut(audit, entry)
                 /\ Return(s, R(AppendOutcome(ok, entry).status,
                                AppendOutcome(ok, entry).body), NoBg)
    /\ UNCHANGED <<files, blobs, now, fixed>>

(***************************************************************************)
(* Environment: the clock and the client's direct transfer                 *)
(***************************************************************************)
Tick ==
    /\ Ready
    /\ now < MaxTime
    /\ now' = now + 1
    /\ UNCHANGED <<files, audit, blobs, slots, out, ops, fixed>>

\* Variant: an S3 event confirms the upload and marks the record uploaded.
ClientPutBlobConfirmed ==
    /\ Ready
    /\ \E k \in DOMAIN files :
        /\ files[k] # NoItem
        /\ files[k].s3Key \notin blobs
        /\ blobs' = blobs \cup {files[k].s3Key}
        /\ files' = [files EXCEPT ![k].status = "uploaded"]
    /\ UNCHANGED <<audit, now, slots, out, ops, fixed>>

\* uploadFileToS3(presignedUrl, file): the client PUTs the bytes to the key
\* of a record the upload handler created.
ClientPutBlob ==
    /\ Ready
    /\ \E k \in DOMAIN files :
        /\ files[k] # NoItem
        /\ files[k].s3Key \notin blobs
        /\ blobs' = blobs \cup {files[k].s3Key}
    /\ UNCHANGED <<files, audit, now, slots, out, ops, fixed>>

\* The response leaves the system.
Deliver ==
    /\ out # NoOut
    /\ out' = NoOut
    /\ UNCHANGED <<files, audit, blobs, now, slots, ops, fixed>>

(***************************************************************************)
(* Identity resolver on its own: every credential shape, every handler     *)
(***************************************************************************)
NoResolution == [impl |-> "", kind |-> "", userId |-> NoUser]

ResolveIdentity ==
    /\ \E i \in Impls, kind \in Kinds :
        resolved' = [impl |-> i, kind |-> kind,
                     userId |-> ResolveUser(i, kind, event)]
    /\ UNCHANGED <<files, audit, blobs, now, slots, out, deployed, ops, event,
                   submitted, issued, paging, walk>>

(***************************************************************************)
(* Storage key on its own: every short fileName, and long ones             *)
(***************************************************************************)
\* A safe character, the dot, the path separator, a character outside the
\* class.
NameChars == {"a", ".", "/", " "}

ShortNames == UNION {[1..n -> NameChars] : n \in 1..MaxShortName}

\* "../../../etc/passwd"
PasswdName ==
    <<".", ".", "/", ".", ".", "/", ".", ".", "/", "e", "t", "c", "/",
      "p", "a", "s", "s", "w", "d">>

\* Names longer than the 255 characters kept: safe characters only, dots
\* only, separators only, "../" repeated, and dots across position 255.
LongNames ==
    {[i \in 1..(MaxNameLen + 45) |-> c] : c \in {"a", ".", "/"}}
    \cup {[i \in 1..(3 * MaxNameLen) |-> IF i % 3 = 0 THEN "/" ELSE "."]}
    \cup {[i \in 1..(MaxNameLen + 2) |-> IF i >= MaxNameLen THEN "." ELSE "a"]}

FileNames == ShortNames \cup {PasswdName} \cup LongNames

NoIssue == [userId |-> NoUser, fileId |-> 0, s3Key |-> NoKey]

\* const s3Key = `users/${userId}/uploads/${fileId}-${sanitizeFileName(..)}`
BuildS3Key ==
    /\ \E u \in Owners, f \in FileIds :
        issued' = [userId |-> u, fileId |-> f,
                   s3Key |-> S3Key(u, f, submitted)]
    /\ UNCHANGED <<files, audit, blobs, now, slots, out, deployed, ops, event,
                   resolved, submitted, paging, walk>>

(***************************************************************************)
(* Page size on its own: every limit parameter, both paginated handlers    *)
(***************************************************************************)
TextLimit == [kind |-> "text", n |-> 0]

\* ?limit= absent, not a number, or an integer from below zero to beyond
\* twice the maximum.
LimitParams ==
    {NoLimit, TextLimit} \cup {IntLimit(n) : n \in (0 - 2)..MaxAsked}

NoPaging ==
    [impl |-> "", kind |-> "", param |-> NoLimit, built |-> FALSE, sent |-> 0]

\* The Limit of the QueryCommand of GET /files and of the audit query.
QueryLimit(impl, kind, l) ==
    IF kind = "list" THEN PageLimit(impl, l, DEFAULT_PAGE_SIZE)
    ELSE PageLimit(impl, l, AUDIT_DEFAULT_LIMIT)

BuildQueryLimit ==
    /\ ~paging.built
    /\ paging' = [paging EXCEPT
            !.built = TRUE,
            !.sent = QueryLimit(paging.impl, paging.kind, paging.param)]
    /\ UNCHANGED <<files, audit, blobs, now, slots, out, deployed, ops, event,
                   resolved, submitted, issued, walk>>

(***************************************************************************)
(* A client that pages: fetchFiles / getAuditLogs called with the          *)
(* nextToken of the previous response until none is returned               *)
(***************************************************************************)
NoWalk ==
    [kind |-> "", limit |-> 0, params |-> NoParams, cursor |-> NoCursor,
     seen |-> <<>>, pages |-> 0, done |-> TRUE, failed |-> FALSE]

\* The sort keys of the items of a page, in the order of the response.
PageKeys(resp) ==
    IF resp.kind = "list"
    THEN [i \in 1..Len(resp.body.files) |-> resp.body.files[i].fileId]
    ELSE [i \in 1..Len(resp.body.auditLogs) |->
            resp.body.auditLogs[i].timestamp]

\* The client takes the response: it keeps the items and the nextToken,
\* and stops when there is none or the request failed.
Collect ==
    /\ out # NoOut
    /\ ~walk.done
    /\ walk' =
        IF out.status # 200
        THEN [walk EXCEPT !.done = TRUE, !.failed = TRUE]
        ELSE [walk EXCEPT !.seen = @ \o PageKeys(out),
                          !.pages = @ + 1,
                          !.cursor = out.body.nextToken,
                          !.done = (out.body.nextToken = NoCursor)]
    /\ out' = NoOut
    /\ UNCHANGED <<files, audit, blobs, now, slots, deployed, ops, event,
                   resolved, submitted, issued, paging>>

(***************************************************************************)
(* Request inputs                                                          *)
(***************************************************************************)
WithClaims(sub, user) == [EmptyEvent EXCEPT !.claims = [sub |-> sub, user |-> user]]
WithPrincipal(id) == [EmptyEvent EXCEPT !.principalId = id]
WithBearer(sub) ==
    [EmptyEvent EXCEPT !.token = [form |-> "bearer", enc |-> "rawurl",
                                  sub |-> sub, user |-> NoUser]]

EventSamples ==
    {EmptyEvent, WithClaims("A", NoUser), WithClaims("B", NoUser),
     WithClaims(NoUser, "A"), WithPrincipal("A"), WithBearer("B")}

DocName == <<"d", ".", "p">>
TraversalName == <<".", ".", "/", "e">>

Upload(fileName, contentType, fileSize) ==
    [fileName |-> fileName, contentType |-> contentType, fileSize |-> fileSize]

UploadSamples ==
    {Upload(DocName, "application/pdf", 5000),
     Upload(DocName, "application/x-sh", 5000)}

ListRequest(limit, cursor) == [limit |-> limit, cursor |-> cursor]

ListSamples ==
    {ListRequest(NoLimit, NoCursor),
     ListRequest(IntLimit(1), KeyCursor("B", MaxFiles))}

NoMeta == [source |-> "web"]
AuditBody(p, metadata) ==
    [limit |-> p.limit, startDate |-> p.startDate, endDate |-> p.endDate,
     fileId |-> p.fileId, action |-> p.action, cursor |-> p.cursor,
     metadata |-> metadata]

AuditReq(method, qs, body) ==
    [method |-> method, qs |-> qs, body |-> body, sourceIp |-> "10.0.0.1",
     userAgent |-> "agent"]

Filter(fileId, action) == [NoParams EXCEPT !.fileId = fileId, !.action = action]

AuditSamples ==
    {AuditReq("GET", NoParams, AuditBody(NoParams, NoMeta)),
     AuditReq("POST", NoParams, AuditBody(Filter(1, "view"), NoMeta))}

\* Two tenants and every credential shape, collaborators that always answer.
Inputs ==
    [ok |-> {TRUE}, blobOk |-> {TRUE}, events |-> EventSamples,
     uploads |-> UploadSamples,
     fileIds |-> 0..MaxFiles, hard |-> {FALSE}, lists |-> ListSamples,
     audits |-> AuditSamples]

\* One tenant, for the interleavings of two requests in flight.
SoloInputs ==
    [Inputs EXCEPT !.events = {EmptyEvent, WithClaims("A", NoUser)}]

\* One tenant, collaborators that may fail.
FaultyInputs == [SoloInputs EXCEPT !.ok = BOOLEAN, !.blobOk = BOOLEAN]

\* One tenant, a blob store whose delete may fail, everything else answers.
BlobFaultInputs == [SoloInputs EXCEPT !.blobOk = BOOLEAN]

(***************************************************************************)
(* Specifications                                                          *)
(***************************************************************************)
Init ==
    /\ files = [k \in Owners \X FileIds |-> NoItem]
    /\ audit = {}
    /\ blobs = {}
    /\ now = 0
    /\ slots = [s \in Slots |-> IdleSlot]
    /\ out = NoOut
    /\ deployed \in Impls
    /\ ops = 0
    /\ event = EmptyEvent
    /\ resolved = NoResolution
    /\ submitted = <<>>
    /\ issued = NoIssue
    /\ paging = NoPaging
    /\ walk = NoWalk

\* The steps of the handlers running in the execution environments S.
Handlers(S, In) ==
    \E s \in S :
        \/ UploadStart(s, In)
        \/ UploadPut(s, In)
        \/ DownloadStart(s, In)
        \/ DeleteStart(s, In)
        \/ DeleteBlob(s, In)
        \/ DeleteUpdate(s, In)
        \/ LogAuditEvent(s, In)
        \/ GoAuditRun(s, In)
        \/ GoAuditLost(s)
        \/ ListFiles(s, In)
        \/ AuditRequest(s, In)

\* One request at a time (a single execution environment), two tenants.
NextSeq == Handlers({"r1"}, Inputs) \/ Tick \/ ClientPutBlob \/ Deliver
SpecSeq == Init /\ [][NextSeq]_vars

\* Two requests in flight at once.
Next == Handlers(Slots, SoloInputs) \/ Tick \/ ClientPutBlob \/ Deliver
Spec == Init /\ [][Next]_vars

\* One request at a time, collaborators that may fail.
NextFaults == Handlers({"r1"}, FaultyInputs) \/ Tick \/ ClientPutBlob \/ Deliver
SpecFaults == Init /\ [][NextFaults]_vars

\* One tenant, one request at a time, collaborators that always answer;
\* an awaited call returns, a response is delivered, and a goroutine that
\* stays runnable is scheduled.
NextSolo == Handlers({"r1"}, SoloInputs) \/ Tick \/ ClientPutBlob \/ Deliver
SpecLive ==
    /\ Init /\ [][NextSolo]_vars
    /\ WF_vars(Deliver)
    /\ WF_vars(UploadPut("r1", SoloInputs))
    /\ WF_vars(DeleteBlob("r1", SoloInputs))
    /\ WF_vars(DeleteUpdate("r1", SoloInputs))
    /\ WF_vars(LogAuditEvent("r1", SoloInputs))
    /\ WF_vars(GoAuditRun("r1", SoloInputs))

\* One request at a time, blob deletion may fail.
NextBlobFaults ==
    Handlers({"r1"}, BlobFaultInputs) \/ Tick \/ ClientPutBlob \/ Deliver
SpecBlobFaults == Init /\ [][NextBlobFaults]_vars

\* Upload requests at the size boundary and with every content type.
BoundarySamples ==
    {Upload(DocName, "application/pdf", MAX_FILE_SIZE),
     Upload(DocName, "application/pdf", MAX_FILE_SIZE + 1),
     Upload(DocName, "application/pdf", 11 * 1024 * 1024),
     Upload(DocName, "video/mp4", MAX_FILE_SIZE + 1)}

TypeSamples ==
    {Upload(DocName, t, 1000) :
        t \in ALLOWED_MIME_TYPES
               \cup {"application/x-msdownload", "video/mp4", "text/html"}}

UploadInputs ==
    [SoloInputs EXCEPT !.uploads = BoundarySamples \cup TypeSamples]

\* Upload traffic alone: the handler, its audit side effect, the clock.
NextUpload ==
    \/ \E s \in {"r1"} :
        \/ UploadStart(s, UploadInputs)
        \/ UploadPut(s, UploadInputs)
        \/ LogAuditEvent(s, UploadInputs)
        \/ GoAuditRun(s, UploadInputs)
        \/ GoAuditLost(s)
    \/ Tick
    \/ Deliver
SpecUpload == Init /\ [][NextUpload]_vars

\* Upload requests with every sign of fileSize: negative, zero, one byte,
\* the maximum, one byte more.
SizeSamples ==
    {Upload(DocName, t, n) :
        t \in {"application/pdf", "application/x-sh"},
        n \in {-1, 0, 1, MAX_FILE_SIZE, MAX_FILE_SIZE + 1}}

SizeInputs == [SoloInputs EXCEPT !.uploads = SizeSamples]

NextSizes ==
    \/ \E s \in {"r1"} :
        \/ UploadStart(s, SizeInputs)
        \/ UploadPut(s, SizeInputs)
        \/ LogAuditEvent(s, SizeInputs)
        \/ GoAuditRun(s, SizeInputs)
        \/ GoAuditLost(s)
    \/ Tick
    \/ Deliver
SpecSizes == Init /\ [][NextSizes]_vars

\* Requests to /files/audit: queries by GET, the bodies the tests of the
\* append post, the bodies the frontend's getAuditLogs posts, another method.
AppendSamples ==
    {AuditReq("POST", NoParams, AuditBody(Filter(f, a), NoMeta)) :
        f \in {0, 1}, a \in validActions \cup {"", "invalid_action"}}

QuerySamples ==
    {AuditReq("GET", NoParams, AuditBody(NoParams, NoMeta)),
     AuditReq("GET", Filter(0, "upload"), AuditBody(NoParams, NoMeta)),
     AuditReq("POST", NoParams,
              AuditBody([NoParams EXCEPT !.limit = IntLimit(1)], NoMeta)),
     AuditReq("POST", NoParams,
              AuditBody([NoParams EXCEPT !.startDate = MaxTime], NoMeta)),
     AuditReq("POST", Filter(0, "download"),
              AuditBody(Filter(0, "upload"), NoMeta)),
     AuditReq("PUT", NoParams, AuditBody(NoParams, NoMeta))}

AuditInputs ==
    [SoloInputs EXCEPT !.uploads = {Upload(DocName, "application/pdf", 5000)},
                       !.audits = AppendSamples \cup QuerySamples]

\* Traffic on the audit endpoint, with uploads filling the ledger.
NextAudit ==
    \/ \E s \in {"r1"} :
        \/ AuditRequest(s, AuditInputs)
        \/ UploadStart(s, AuditInputs)
        \/ UploadPut(s, AuditInputs)
        \/ LogAuditEvent(s, AuditInputs)
        \/ GoAuditRun(s, AuditInputs)
        \/ GoAuditLost(s)
    \/ Tick
    \/ Deliver
SpecAudit == Init /\ [][NextAudit]_vars

\* Appends whose metadata is absent of the two keys, or carries them, from
\* request contexts with and without a source address and a user agent.
SpoofedMeta == [source |-> "web", ipAddress |-> "6.6.6.6", userAgent |-> "spoof"]

MetaSamples ==
    {[AuditReq("POST", NoParams, AuditBody(Filter(f, "view"), m))
        EXCEPT !.sourceIp = ip, !.userAgent = ua] :
        f \in 1..MaxFiles, m \in {NoMeta, SpoofedMeta},
        ip \in {"", "10.0.0.1"}, ua \in {"", "agent"}}

MetaInputs == [SoloInputs EXCEPT !.audits = MetaSamples]

\* Appends to the audit endpoint.
NextAppend ==
    \/ \E s \in {"r1"} : AuditRequest(s, MetaInputs)
    \/ Tick
    \/ Deliver
SpecAppend == Init /\ [][NextAppend]_vars

\* Requests of every kind, accepted and rejected: uploads with a missing
\* field, too large or of a type not allowed; downloads and deletes of
\* absent and deleted records; appends with a missing field or an action
\* outside the enum; another method.
RejectSamples ==
    {Upload(DocName, "application/pdf", 5000),
     Upload(<<>>, "application/pdf", 5000),
     Upload(DocName, "application/pdf", MAX_FILE_SIZE + 1),
     Upload(DocName, "video/mp4", 1000)}

RejectInputs ==
    [SoloInputs EXCEPT !.uploads = RejectSamples,
                       !.audits = AppendSamples \cup QuerySamples]

NextReject ==
    Handlers({"r1"}, RejectInputs) \/ Tick \/ ClientPutBlob \/ Deliver
SpecReject == Init /\ [][NextReject]_vars

\* The identity resolver applied to every credential shape.
InitIdentity ==
    /\ files = [k \in Owners \X FileIds |-> NoItem]
    /\ audit = {}
    /\ blobs = {}
    /\ now = 0
    /\ slots = [s \in Slots |-> IdleSlot]
    /\ out = NoOut
    /\ deployed = "js"
    /\ ops = 0
    /\ event \in Events
    /\ resolved = NoResolution
    /\ submitted = <<>>
    /\ issued = NoIssue
    /\ paging = NoPaging
    /\ walk = NoWalk
SpecIdentity == InitIdentity /\ [][ResolveIdentity]_vars

\* The storage key built for every fileName.
InitSanitize ==
    /\ files = [k \in Owners \X FileIds |-> NoItem]
    /\ audit = {}
    /\ blobs = {}
    /\ now = 0
    /\ slots = [s \in Slots |-> IdleSlot]
    /\ out = NoOut
    /\ deployed \in Impls
    /\ ops = 0
    /\ event = EmptyEvent
    /\ resolved = NoResolution
    /\ submitted \in FileNames
    /\ issued = NoIssue
    /\ paging = NoPaging
    /\ walk = NoWalk
SpecSanitize == InitSanitize /\ [][BuildS3Key]_vars

\* A record as the upload handler stores it and as soft-delete leaves it.
StoredFile(userId, fileId, status, t) ==
    LET item == NewItem(userId, fileId, DocName, "application/pdf", 5000, t)
    IN  IF status = "deleted" THEN MarkDeleted(item, MaxTime, MaxTime) ELSE item

\* Tables of owner A: every fileId absent, pending or deleted, created at
\* any time.
WalkTables ==
    {[k \in Owners \X FileIds |->
        IF k[1] = "A" /\ st[k[2]] # "none"
        THEN StoredFile("A", k[2], st[k[2]], at[k[2]])
        ELSE NoItem] :
     st \in [FileIds -> {"none", "pending", "deleted"}],
     at \in [FileIds -> Times]}

\* Ledgers of owner A: at every instant no entry or one entry.
WalkLedgers ==
    {{AuditItem("A", t, e[t].fileId, e[t].action, NoMeta) :
        t \in {x \in Times : e[x].action # ""}} :
     e \in [Times -> [fileId : {1}, action : {"", "upload", "download"}]
                      \cup [fileId : {MaxFiles}, action : {"upload"}]]}

\* Audit queries: no filter, a lower bound, an upper bound, both bounds,
\* a fileId, an action, a filter within a range.
WalkQueries ==
    {NoParams,
     [NoParams EXCEPT !.startDate = MaxTime],
     [NoParams EXCEPT !.endDate = 0],
     [NoParams EXCEPT !.startDate = 0, !.endDate = MaxTime],
     Filter(1, ""), Filter(0, "upload"),
     [Filter(1, "") EXCEPT !.startDate = 0],
     [Filter(0, "download") EXCEPT !.endDate = MaxTime]}

\* The request the client makes next.
WalkInputs ==
    [SoloInputs EXCEPT
        !.events = {WithClaims("A", NoUser)},
        !.lists = {ListRequest(IntLimit(walk.limit), walk.cursor)},
        !.audits = {AuditReq("GET",
                        [walk.params EXCEPT !.limit = IntLimit(walk.limit),
                                            !.cursor = walk.cursor],
                        AuditBody(NoParams, NoMeta))}]

InitWalk ==
    /\ blobs = {}
    /\ now = MaxTime
    /\ slots = [s \in Slots |-> IdleSlot]
    /\ out = NoOut
    /\ deployed \in Impls
    /\ ops = 0
    /\ event = EmptyEvent
    /\ resolved = NoResolution
    /\ submitted = <<>>
    /\ issued = NoIssue
    /\ paging = NoPaging
    /\ \E kind \in {"list", "audit"}, limit \in 1..(MaxFiles + 1) :
        /\ IF kind = "list"
           THEN files \in WalkTables /\ audit = {}
           ELSE files = [k \in Owners \X FileIds |-> NoItem]
                /\ audit \in WalkLedgers
        /\ \E q \in (IF kind = "list" THEN {NoParams} ELSE WalkQueries) :
            walk = [NoWalk EXCEPT !.kind = kind, !.limit = limit,
                                  !.params = q, !.done = FALSE]

\* GET /files?limit=..&nextToken=..
WalkList == walk.kind = "list" /\ ~walk.done /\ ListFiles("r1", WalkInputs)

\* GET /files/audit?limit=..&nextToken=.. with the filters of the walk
WalkAudit ==
    walk.kind = "audit" /\ ~walk.done /\ AuditRequest("r1", WalkInputs)

\* No concurrent writes: the client's requests are the only traffic.
NextWalk == WalkList \/ WalkAudit \/ Collect
SpecWalk == InitWalk /\ [][NextWalk]_vars

\* The Limit built for every limit parameter.
InitPaging ==
    /\ files = [k \in Owners \X FileIds |-> NoItem]
    /\ audit = {}
    /\ blobs = {}
    /\ now = 0
    /\ slots = [s \in Slots |-> IdleSlot]
    /\ out = NoOut
    /\ deployed = "js"
    /\ ops = 0
    /\ event = EmptyEvent
    /\ resolved = NoResolution
    /\ submitted = <<>>
    /\ issued = NoIssue
    /\ paging \in [impl : Impls, kind : {"list", "audit"}, param : LimitParams,
                    built : {FALSE}, sent : {0}]
    /\ walk = NoWalk
SpecPaging == InitPaging /\ [][BuildQueryLimit]_vars

(***************************************************************************)
(* Properties                                                              *)
(***************************************************************************)
Answered(kind) == out # NoOut /\ out.kind = kind
Identified == out.userId # NoUser
Prefix(userId) == <<"users", userId, "uploads">>
OutItem == ItemAt(files, out.userId, out.req.fileId)

\* Every identity on whose behalf the step taken acts: the one answered,
\* those with a request in flight, and the one whose deferred audit write
\* was pending.
Actors ==
    {out'.userId}
    \cup {slots'[s].userId : s \in {t \in Slots : slots'[t].pc # "idle"}}
    \cup {slots[s].bg.userId : s \in {t \in Slots : slots[t].bg # NoBg}}

\* What a successful response shows belongs to the partition of the
\* identity the request resolved to.
RevealsOwn ==
    out # NoOut /\ out.status \in {200, 201} =>
        LET a == out.userId
        IN  CASE out.kind = "download" ->
                    /\ OutItem # NoItem
                    /\ out.body = DownloadBody(OutItem,
                                     PresignGet(OutItem.s3Key, OutItem.fileName))
                    /\ out.body.presignedUrl.key.prefix = Prefix(a)
              [] out.kind = "delete" ->
                    /\ OutItem # NoItem
                    /\ out.body = DeleteBody(out.req.fileId, OutItem)
              [] out.kind = "upload" ->
                    /\ out.body.s3Key.prefix = Prefix(a)
                    /\ ItemAt(files, a, out.body.fileId) # NoItem
              [] out.kind = "list" ->
                    /\ \A i \in 1..Len(out.body.files) :
                        LET v == out.body.files[i]
                        IN  /\ ItemAt(files, a, v.fileId) # NoItem
                            /\ v = FileView(v.fileId, ItemAt(files, a, v.fileId))
                    /\ out.body.nextToken.userId \in {NoUser, a}
              [] out.kind = "audit" /\ out.status = 200 ->
                    /\ \A i \in 1..Len(out.body.auditLogs) :
                        /\ out.body.auditLogs[i] \in audit
                        /\ out.body.auditLogs[i].userId = a
                    /\ out.body.nextToken.userId \in {NoUser, a}
              [] out.kind = "audit" /\ out.status = 201 ->
                    out.body.auditEntry.userId = a

\* A fileId the identity holds no record for is not found, whoever else
\* holds a record under it.
ForeignIsNotFound ==
    (out # NoOut /\ out.kind \in {"download", "delete"} /\ Identified
        /\ out.req.fileId # 0 /\ OutItem = NoItem)
    => (out.status = 404 /\ out.body = NotFound)

\* A step changes records, audit entries and blobs only in the partitions
\* of the identities it acts for.
WritesOwn ==
    \A u \in Owners :
        (\/ \E f \in FileIds : files'[<<u, f>>] # files[<<u, f>>]
         \/ \E e \in (audit' \ audit) \cup (audit \ audit') : e.userId = u
         \/ \E b \in blobs \ blobs' : b.prefix = Prefix(u))
        => u \in Actors

BearerOnly(ev) ==
    /\ ev.claims = NoClaims /\ ev.jwtClaims = NoClaims /\ ev.authSub = NoUser
    /\ ev.principalId = NoUser /\ ev.identityId = NoUser
    /\ ev.token.form = "bearer"

\* C2: the resolved identifier is non-forgeable. A request with no verified
\* claims and no principal id, only a bearer token whose payload names an
\* owner, is never resolved to that owner.
BearerNeverTrusted ==
    (resolved.kind # "" /\ BearerOnly(event))
    => resolved.userId \notin (({event.token.sub, event.token.user} \ {NoUser}))

\* C3, state part: a request that resolves to no identity is answered 401,
\* whatever its body; an event without any credential resolves to none; no
\* request in flight, deferred audit write or audit entry has an empty owner.
EmptyIdentityRejected ==
    /\ (out # NoOut /\ ~Identified) =>
            (out.status = 401 /\ out.body = Unauthorized)
    /\ (out # NoOut /\ out.event = EmptyEvent) => ~Identified
    /\ \A s \in Slots :
        /\ slots[s].pc # "idle" => slots[s].userId # NoUser
        /\ slots[s].bg # NoBg => slots[s].bg.userId # NoUser
    /\ \A e \in audit : e.userId # NoUser

\* C3, step part: the step that answers 401 changes no table and no blob and
\* leaves nothing in flight.
RejectionTouchesNothing ==
    (out = NoOut /\ out' # NoOut /\ out'.status = 401)
    => /\ files' = files /\ audit' = audit /\ blobs' = blobs
       /\ slots'[out'.slot] = IdleSlot

\* C3: identity resolution runs first. A request from which no identity can
\* be resolved is answered 401 before its body is validated and without any
\* change to the metadata store, the audit ledger or the blob store, and no
\* request proceeds with an empty owner id.
IdentityFirst == []EmptyIdentityRejected /\ [][RejectionTouchesNothing]_vars

\* An upload whose content type is not allowed, from nobody: 401, not 400.
IdentityFirstWitness ==
    /\ Answered("upload") /\ out.event = EmptyEvent /\ out.status = 401
    /\ out.req.contentType \notin ALLOWED_MIME_TYPES

\* The order the claim states: claims subject, claims username, principal
\* id, bearer payload.
StatedOrder(ev) ==
    IF ev.claims # NoClaims /\ ev.claims.sub # NoUser THEN ev.claims.sub
    ELSE IF ev.claims # NoClaims /\ ev.claims.user # NoUser THEN ev.claims.user
    ELSE IF ev.principalId # NoUser THEN ev.principalId
    ELSE IF ev.token.form = "bearer" /\ ev.token.enc \in {"rawurl", "std"}
    THEN Or2(ev.token.sub, ev.token.user)
    ELSE NoUser

UsernameOnly(ev) ==
    /\ ev.claims # NoClaims /\ ev.claims.sub = NoUser /\ ev.claims.user # NoUser
PrincipalOnly(ev) == ev.claims = NoClaims /\ ev.principalId # NoUser

\* C4: every handler of both implementations resolves the identity in the
\* order claims subject, claims username, principal id, bearer payload; a
\* request with only a username claim or only a principal id is resolved to
\* that value and served, not answered 401.
OrderInEveryHandler ==
    out # NoOut =>
        /\ out.userId = StatedOrder(out.event)
        /\ (UsernameOnly(out.event) \/ PrincipalOnly(out.event))
            => out.status # 401

\* C5: no transition leaves deleted. A record whose status is deleted has
\* status deleted after every step.
DeletedIsFinal ==
    [][\A k \in DOMAIN files :
            files[k].status = "deleted" => files'[k].status = "deleted"]_vars

\* A record was deleted and, later, another upload was accepted.
DeletedIsFinalWitness ==
    \E k1, k2 \in DOMAIN files :
        /\ files[k1].status = "deleted" /\ files[k2].status = "pending"
        /\ files[k2].createdAt > files[k1].deletedAt

\* C6, state part: the answer to a soft-delete, against the record.
DeleteAnswer ==
    (Answered("delete") /\ Identified /\ out.req.fileId # 0) =>
        /\ out.status \in {200, 400, 404}
        /\ out.status = 404 <=> OutItem = NoItem
        /\ out.status = 404 => out.body = NotFound
        /\ out.status = 400 =>
            (OutItem.status = "deleted" /\ out.body = AlreadyDeleted)
        /\ out.status = 200 =>
            /\ OutItem.status = "deleted"
            /\ out.body.fileId = out.req.fileId
            /\ out.body.fileName = OutItem.fileName
            /\ out.body.message = "File deleted successfully"

\* C6, step part: a soft-delete of a record already deleted is answered 400
\* at once with the record, the blob store and the ledger as they were; a
\* soft-delete of any other record proceeds, and ends in success.
DeleteStep ==
    /\ \A s \in Slots :
        (slots[s].pc = "idle" /\ out' # NoOut /\ out'.slot = s
            /\ out'.kind = "delete" /\ out'.userId # NoUser
            /\ out'.req.fileId # 0)
        => LET before == ItemAt(files, out'.userId, out'.req.fileId)
           IN  /\ before = NoItem \/ before.status = "deleted"
               /\ before.status = "deleted" =>
                    /\ out'.status = 400 /\ out'.body = AlreadyDeleted
                    /\ files' = files /\ blobs' = blobs /\ audit' = audit
    /\ \A s \in Slots :
        (slots[s].pc # "idle" /\ slots[s].kind = "delete" /\ out' # NoOut
            /\ out'.slot = s)
        => out'.status = 200

\* C6: sequential soft-delete. 404 when the owner has no such record; 400
\* AlreadyDeleted, with the record, the blob store and the audit ledger
\* unchanged, when the record is deleted; otherwise the status becomes
\* deleted and the success response carries the record's fileId and fileName.
SoftDeleteOutcome == []DeleteAnswer /\ [][DeleteStep]_vars

\* A second soft-delete of the same file was answered 400.
SoftDeleteOutcomeWitness ==
    /\ Answered("delete") /\ out.status = 400 /\ out.body = AlreadyDeleted
    /\ OutItem.status = "deleted"

\* C7: list never returns a deleted record; once a record is deleted (its
\* soft-delete reported success) every list omits it and every download of
\* it is answered 404; a pending record is listed, with status pending, by a
\* first-page list, and its download succeeds.
DeletedIsInvisible ==
    /\ (Answered("list") /\ out.status = 200) =>
        \A i \in 1..Len(out.body.files) :
            /\ out.body.files[i].status # "deleted"
            /\ ItemAt(files, out.userId, out.body.files[i].fileId).status
                    # "deleted"
    /\ (Answered("list") /\ Identified
            /\ out.req = ListRequest(NoLimit, NoCursor)) =>
        /\ out.status = 200
        /\ \A f \in FileIds :
            ItemAt(files, out.userId, f).status = "pending" =>
                \E i \in 1..Len(out.body.files) :
                    /\ out.body.files[i].fileId = f
                    /\ out.body.files[i].status = "pending"
    /\ (Answered("download") /\ Identified /\ out.req.fileId # 0) =>
        /\ OutItem.status = "deleted" => out.status = 404
        /\ OutItem.status = "pending" => out.status = 200

\* A first-page list left out a record of the caller that is deleted.
DeletedIsInvisibleWitness ==
    /\ Answered("list") /\ out.status = 200
    /\ out.req = ListRequest(NoLimit, NoCursor)
    /\ \E f \in FileIds :
        /\ ItemAt(files, out.userId, f).status = "deleted"
        /\ \A i \in 1..Len(out.body.files) : out.body.files[i].fileId # f

DownloadAnswer ==
    (Answered("download") /\ Identified /\ out.req.fileId # 0
        /\ OutItem.status \in {"pending", "uploaded"}) =>
        /\ out.status = 200
        /\ out.body.presignedUrl =
                [op |-> "get", key |-> OutItem.s3Key,
                 disposition |-> <<"attachment", OutItem.fileName>>,
                 expiresIn |-> 3600]
        /\ out.body.fileName = OutItem.fileName
        /\ out.body.contentType = OutItem.contentType
        /\ out.body.fileSize = OutItem.fileSize
        /\ out.body.expiresIn = 3600
        /\ \E e \in audit :
            /\ e.userId = out.userId /\ e.fileId = out.req.fileId
            /\ e.action = "download" /\ e.timestamp <= now

\* C9, step part: no step of a download changes a record.
DownloadKeepsRecord ==
    (\/ (out' # NoOut /\ out'.kind = "download")
     \/ \E s \in Slots : slots'[s].pc # "idle" /\ slots'[s].kind = "download")
    => files' = files

\* C9: a download by A of A's pending or uploaded record succeeds with a
\* read credential for the stored key, 3600 s, the fileName as disposition;
\* the response carries fileName, contentType, fileSize and expiresIn 3600;
\* the record is unchanged; one audit entry (A, fileId, download) is written.
DownloadSucceeds == []DownloadAnswer /\ [][DownloadKeepsRecord]_vars

\* C10, state part: the answer to a successful upload, against the record.
UploadAnswer ==
    (Answered("upload") /\ out.status = 200) =>
        LET item == ItemAt(files, out.userId, out.body.fileId)
        IN  /\ item.status = "pending"
            /\ item.fileName = out.req.fileName
            /\ item.contentType = out.req.contentType
            /\ item.fileSize = out.req.fileSize
            /\ item.s3Key = out.body.s3Key
            /\ out.body.presignedUrl.op = "put"
            /\ out.body.presignedUrl.key = out.body.s3Key
            /\ out.body.expiresIn = 3600
            /\ out.body.presignedUrl.expiresIn = 3600

\* C10, round trip: a download answered 200 carries the record's fields.
DownloadShowsRecord ==
    (Answered("download") /\ out.status = 200) =>
        /\ out.body.fileName = OutItem.fileName
        /\ out.body.contentType = OutItem.contentType
        /\ out.body.fileSize = OutItem.fileSize

\* C10, step part: a step creates at most one record, under an identifier no
\* record carried, in the partition of the uploading identity; a record's
\* name, type, size and key never change.
CreatesOne ==
    LET created == {k \in DOMAIN files : files[k] = NoItem /\ files'[k] # NoItem}
    IN  /\ Cardinality(created) <= 1
        /\ \A k \in created :
            /\ \A o \in Owners : files[<<o, k[2]>>] = NoItem
            /\ \/ (out' # NoOut /\ out'.kind = "upload" /\ out'.status = 200
                    /\ out'.userId = k[1] /\ out'.body.fileId = k[2])
               \/ \E s \in Slots :
                    /\ slots'[s].pc # "idle" /\ slots'[s].kind = "upload"
                    /\ slots'[s].userId = k[1] /\ slots'[s].fileId = k[2]
            /\ \A j \in DOMAIN files \ {k} : files'[j] = files[j]
        /\ \A k \in DOMAIN files :
            files[k] # NoItem =>
                /\ files'[k].fileName = files[k].fileName
                /\ files'[k].contentType = files[k].contentType
                /\ files'[k].fileSize = files[k].fileSize
                /\ files'[k].s3Key = files[k].s3Key

\* C10: a successful upload by A persists exactly one new record in A's
\* partition: fresh fileId, status pending, the submitted fileName,
\* contentType and fileSize, the storage key of the response; a following
\* download returns the same three fields; the response carries the
\* credential, the fileId, the storage key and expiresIn 3600.
UploadRoundTrip ==
    /\ [](UploadAnswer /\ DownloadShowsRecord)
    /\ [][CreatesOne]_vars

\* An upload was answered 200 and its record is stored.
UploadRoundTripWitness ==
    /\ Answered("upload") /\ out.status = 200
    /\ ItemAt(files, out.userId, out.body.fileId).status = "pending"

\* The upload request carries all three fields.
FieldsPresent(rq) == rq.fileName # <<>> /\ rq.contentType # "" /\ rq.fileSize # 0

\* The step answers an upload with a rejection of its input.
RejectsUpload(body) ==
    /\ out = NoOut /\ out' # NoOut /\ out'.kind = "upload"
    /\ out'.status = 400 /\ out'.body = body

\* A rejected upload creates no record, asks for no credential, writes no
\* audit entry and leaves nothing in flight.
CreatesNothing ==
    /\ files' = files /\ audit' = audit /\ blobs' = blobs
    /\ slots'[out'.slot] = IdleSlot
    /\ "presignedUrl" \notin DOMAIN out'.body

\* C11, state part: the answer to an upload with all fields and an allowed
\* content type, by its size.
SizeAnswer ==
    (Answered("upload") /\ Identified /\ FieldsPresent(out.req)
        /\ out.req.contentType \in ALLOWED_MIME_TYPES) =>
        /\ out.req.fileSize = 10 * 1024 * 1024 => out.status = 200
        /\ out.req.fileSize > 10 * 1024 * 1024 =>
            (out.status = 400 /\ out.body = SizeError)

\* C11: issue-upload size boundary. With all fields present and an allowed
\* content type, a fileSize equal to the maximum (10 MiB) succeeds and every
\* fileSize above the maximum is rejected with the size error; the rejection
\* creates no record, requests no credential and writes no audit entry.
SizeBoundary ==
    /\ []SizeAnswer
    /\ [][RejectsUpload(SizeError) => CreatesNothing]_vars

\* One byte over the maximum was refused while a record of exactly the
\* maximum size is stored.
SizeBoundaryWitness ==
    /\ Answered("upload") /\ out.status = 400 /\ out.body = SizeError
    /\ out.req.fileSize = MAX_FILE_SIZE + 1
    /\ \E f \in FileIds :
        ItemAt(files, out.userId, f).fileSize = MAX_FILE_SIZE

\* The body of the unsupported-type rejection, as the claim states it.
TypeErrorWithGuidance(rq) ==
    [error |-> "Content type is not allowed", contentType |-> rq.contentType,
     allowedTypes |-> ALLOWED_MIME_TYPES]

\* C12, state part: the answer to an upload with all fields and a size
\* within the maximum, by its content type.
TypeAnswer ==
    (Answered("upload") /\ Identified /\ FieldsPresent(out.req)
        /\ out.req.fileSize <= MAX_FILE_SIZE) =>
        /\ out.req.contentType \in ALLOWED_MIME_TYPES => out.status = 200
        /\ out.req.contentType \notin ALLOWED_MIME_TYPES =>
            /\ out.status = 400
            /\ out.body = TypeErrorWithGuidance(out.req)

\* C12: issue-upload content-type check. Each of the nine allow-listed MIME
\* types is accepted; every other contentType is rejected with the
\* unsupported-type error, whose response returns the allow-list; the
\* rejection creates no record and requests no credential.
TypeCheck ==
    /\ []TypeAnswer
    /\ [][(out = NoOut /\ out' # NoOut /\ out'.kind = "upload"
            /\ out'.status = 400 /\ "contentType" \in DOMAIN out'.body)
          => CreatesNothing]_vars

\* The key as the bucket sees it: one string, "/" between its segments.
KeyPath(key) ==
    <<"users", "/", key.prefix[2], "/", "uploads", "/",
      ToString(key.object[1]), "-">>
    \o key.object[2]

Count(seq, c) == Cardinality({i \in 1..Len(seq) : seq[i] = c})

\* C13: storage-key confinement. For every fileName the key built for owner
\* A is A's upload prefix followed by {fileId}-{sanitizedName}; the
\* sanitized name has only characters of [a-zA-Z0-9._-], no two consecutive
\* dots, no "/" and at most 255 characters; so the key has exactly the three
\* separators of the prefix, no ".." segment, and stays in A's namespace.
KeyConfined ==
    issued # NoIssue =>
        LET key == issued.s3Key
            n == key.object[2]
        IN  /\ key.prefix = <<"users", issued.userId, "uploads">>
            /\ key.object[1] = issued.fileId
            /\ \A i \in 1..Len(n) :
                n[i] \in Lower \cup Upper \cup Digit \cup {".", "_", "-"}
            /\ \A i \in 1..(Len(n) - 1) : ~(n[i] = "." /\ n[i + 1] = ".")
            /\ Len(n) <= 255
            /\ Len(n) <= Len(submitted)
            /\ Count(KeyPath(key), "/") = 3
            /\ \A i \in 1..(Len(KeyPath(key)) - 1) :
                ~(KeyPath(key)[i] = "." /\ KeyPath(key)[i + 1] = ".")

\* The key built from "../../../etc/passwd".
KeyConfinedWitness ==
    /\ submitted = PasswdName
    /\ issued # NoIssue
    /\ issued.s3Key.object[2]
        = <<".", "_", ".", "_", ".", "_", "e", "t", "c", "_",
            "p", "a", "s", "s", "w", "d">>

\* An identified caller's POST to the audit endpoint was answered.
AppendAnswered == Answered("audit") /\ Identified /\ out.req.method = "POST"

\* The entries of the ledger that record (userId, fileId, action).
Recorded(ledger, userId, fileId, action) ==
    {e \in ledger : e.userId = userId /\ e.fileId = fileId /\ e.action = action}

\* C14, state part: the answer to an append, by its body.
AppendAnswer ==
    AppendAnswered =>
        LET b == out.req.body
        IN  /\ (b.fileId = 0 \/ b.action = "") =>
                /\ out.status = 400
                /\ out.body = Err("Missing required fields: fileId, action")
            /\ (b.fileId # 0 /\ b.action # ""
                    /\ b.action \notin {"view", "download", "upload", "delete",
                                        "share", "access_attempt"}) =>
                /\ out.status = 400
                /\ out.body # Err("Missing required fields: fileId, action")
            /\ (b.fileId # 0
                    /\ b.action \in {"view", "download", "upload", "delete",
                                     "share", "access_attempt"}) =>
                /\ out.status = 201
                /\ out.body.auditEntry.fileId = b.fileId
                /\ out.body.auditEntry.action = b.action
                /\ Recorded(audit, out.userId, b.fileId, b.action) # {}

\* C14, step part: the step that answers an append makes one write, of the
\* caller's entry with the fileId and action of the body at the current
\* time, when it answers 201 and none otherwise.
AppendStep ==
    (out = NoOut /\ out' # NoOut /\ out'.kind = "audit"
        /\ out'.req.method = "POST") =>
        /\ files' = files /\ blobs' = blobs
        /\ IF out'.status = 201
           THEN \E e \in Recorded(audit', out'.userId, out'.req.body.fileId,
                                   out'.req.body.action) :
                    /\ e.timestamp = now
                    /\ audit' \ audit \subseteq {e}
           ELSE audit' = audit

\* C14: audit-append. A POST to the audit endpoint without fileId or without
\* action is rejected 400 (missing field); with an action outside the six
\* of the enum it is rejected 400 (invalid action); with each of the six it
\* is answered 201 and one entry (caller, fileId, action) is written; a
\* rejection writes nothing.
AppendContract == []AppendAnswer /\ [][AppendStep]_vars

\* The filter in effect: the body's when the body carries it.
Effective(rq) == MergeParams(rq.qs, rq.body)

\* The caller's entries that pass the filters in effect.
Matching(ledger, userId, p) ==
    {e \in ledger :
        /\ e.userId = userId
        /\ InRange(e.timestamp, p.startDate, p.endDate)
        /\ p.fileId # 0 => e.fileId = p.fileId
        /\ p.action # "" => e.action = p.action}

\* C15, state part: a POST is answered with the list of the caller's
\* entries that match the filters of the body and, for the filters the body
\* leaves out, of the query string.
PostListAnswer ==
    AppendAnswered =>
        /\ out.status = 200
        /\ LET listed == {out.body.auditLogs[i] :
                            i \in 1..Len(out.body.auditLogs)}
               p == Effective(out.req)
           IN  /\ listed \subseteq Matching(audit, out.userId, p)
               /\ out.body.count = Cardinality(listed)
               /\ p.limit = NoLimit => listed = Matching(audit, out.userId, p)

\* C15, step part: a request to the audit endpoint writes nothing.
AuditWritesNothing ==
    (out = NoOut /\ out' # NoOut /\ out'.kind = "audit"
        /\ out'.req.method \in {"GET", "POST"}) =>
        (audit' = audit /\ files' = files /\ blobs' = blobs)

\* C15: for both GET and POST the audit endpoint lists the caller's audit
\* logs. A POST whose body carries query filters is answered 200 with the
\* caller's matching entries, the body's filters taking precedence over the
\* query string's, and writes nothing to the ledger.
PostLists ==
    /\ []PostListAnswer
    /\ []((Answered("audit") /\ Identified /\ out.req.method = "GET")
            => out.status = 200)
    /\ [][AuditWritesNothing]_vars

\* Every entry of the ledger is in the ledger after the step.
EntriesKept == \A e \in audit : e \in audit'

\* The number of entries stored for an owner.
EntryCount(ledger, userId) == Cardinality({e \in ledger : e.userId = userId})

\* The step completes an audit write that the ledger accepted: the awaited
\* write of a lifecycle handler, or the append answered 201.
WritesFor(userId) ==
    \/ \E s \in Slots :
        /\ slots[s].pc = "audit" /\ slots'[s].pc = "idle"
        /\ slots[s].userId = userId
    \/ /\ out = NoOut /\ out' # NoOut /\ out'.kind = "audit"
       /\ out'.status = 201 /\ out'.userId = userId

\* C16: the audit ledger is append-only. No step modifies or removes an
\* entry, whichever handler takes it and whatever timestamp a later write
\* is assigned; the number of entries of an owner never decreases, and each
\* accepted write adds one.
LedgerAppendOnly ==
    [][/\ EntriesKept
       /\ \A u \in Owners :
            /\ EntryCount(audit', u) >= EntryCount(audit, u)
            /\ WritesFor(u) => EntryCount(audit', u) = EntryCount(audit, u) + 1
      ]_vars

\* The success response of the lifecycle handler running in a slot.
SuccessOf(s, sl) ==
    Response(s, sl.kind, sl.impl, sl.event, sl.userId, sl.req, 200,
             SuccessBody(sl))

\* C17: an audit-write failure in issue-upload, issue-download or
\* soft-delete is swallowed. The step that makes the audit write, awaited
\* (JavaScript) or deferred (Go), yields the same response and leaves the
\* same records whether the ledger takes the entry or refuses it: the
\* awaited write is followed by the handler's success response, the
\* deferred one leaves the response already returned as it is.
AuditFailureSwallowed ==
    [][\A s \in Slots :
        /\ (slots[s].pc = "audit" /\ slots'[s] # slots[s]) =>
            /\ out' = SuccessOf(s, slots[s])
            /\ files' = files /\ blobs' = blobs
            /\ slots'[s] = IdleSlot
        /\ (slots[s].bg # NoBg /\ slots'[s].bg = NoBg) =>
            /\ out' = out
            /\ files' = files /\ blobs' = blobs
      ]_vars

\* An upload was answered 200, its record is stored, and the ledger, which
\* refused the write, holds no entry for it.
AuditFailureSwallowedWitness ==
    /\ Answered("upload") /\ out.impl = "js" /\ out.status = 200
    /\ ItemAt(files, out.userId, out.body.fileId).status = "pending"
    /\ Recorded(audit, out.userId, out.body.fileId, "upload") = {}

\* The request asks for an append: a POST that reaches the ledger write
\* (the handler that appends, fileId present, action of the enum).
AsksAppend(resp) ==
    /\ resp.kind = "audit" /\ resp.userId # NoUser /\ resp.impl = "go"
    /\ resp.req.method = "POST"
    /\ resp.req.body.fileId # 0 /\ resp.req.body.action \in validActions

\* C18, state part: an append answered 201 is in the ledger.
CreatedIsStored ==
    (Answered("audit") /\ out.status = 201) =>
        \E e \in audit :
            /\ e.userId = out.body.auditEntry.userId
            /\ e.timestamp = out.body.auditEntry.timestamp
            /\ e.fileId = out.body.auditEntry.fileId
            /\ e.action = out.body.auditEntry.action

\* C18, step part: the step that answers an append either stores the entry
\* and answers 201, or, the ledger having refused the write, leaves the
\* ledger as it was and answers 500 with the generic message.
AppendStoredOrInternal ==
    (out = NoOut /\ out' # NoOut /\ AsksAppend(out')) =>
        LET stored ==
                {e \in Recorded(audit', out'.userId, out'.req.body.fileId,
                                out'.req.body.action) : e.timestamp = now}
        IN  \/ out'.status = 201 /\ stored # {}
            \/ /\ out'.status = 500 /\ out'.body = Internal
               /\ audit' = audit

\* C18: when audit-append is the requested operation and the ledger write
\* fails, the caller is answered the generic Internal error (500) and no
\* success (201) is returned.
AppendFailureSurfaced == []CreatedIsStored /\ [][AppendStoredOrInternal]_vars

\* An append whose write the ledger refused was answered 500: the ledger
\* holds no such entry.
AppendFailureSurfacedWitness ==
    /\ out # NoOut /\ AsksAppend(out)
    /\ out.status = 500 /\ out.body = Internal
    /\ Recorded(audit, out.userId, out.req.body.fileId, out.req.body.action)
            = {}

\* The record a soft-delete in flight is about, after the step.
SlotItemAfter(sl) == ItemAt(files', sl.userId, sl.fileId)

Succeeded(kind, u, f) ==
    /\ Answered(kind) /\ out.status = 200 /\ out.userId = u
    /\ f = IF kind = "upload" THEN out.body.fileId ELSE out.req.fileId

\* C20: every issue-upload, issue-download and soft-delete that returns
\* success is followed by an audit entry of the caller with the fileId and
\* the action of the operation: with a ledger that accepts every write,
\* the entry is eventually in the ledger, in both implementations.
SuccessIsAudited ==
    \A kind \in {"upload", "download", "delete"}, u \in Owners, f \in FileIds :
        Succeeded(kind, u, f) ~> (Recorded(audit, u, f, kind) # {})

\* C21: no background work outlives a request. At the moment a handler
\* returns its response, every store or collaborator call it started has
\* completed or failed: the execution environment that answered is idle and
\* holds no write that is still to be made.
NoBackgroundWork ==
    out # NoOut =>
        /\ slots[out.slot].pc = "idle"
        /\ slots[out.slot].bg = NoBg

\* The record an upload in flight is about, before and after the step.
UploadRow(table, sl) == ItemAt(table, sl.userId, sl.fileId)

\* The step answers, from environment s, an upload whose handler was at `pc`.
UploadEnds(s, pc) ==
    /\ slots[s].pc = pc /\ out = NoOut /\ out' # NoOut /\ out'.slot = s
    /\ out'.kind = "upload"

CredentialHeldAtPut ==
    \A s \in Slots :
        slots[s].pc = "put" =>
            /\ slots[s].cred =
                    PresignPut(S3Key(slots[s].userId, slots[s].fileId,
                                     slots[s].req.fileName),
                               slots[s].req.contentType, slots[s].req.fileSize)
            /\ UploadRow(files, slots[s]) = NoItem

\* C22 as amended, step part: an upload that fails at credential issuance
\* or at the metadata write is answered 500 with no credential in the
\* response and no record created; the metadata write that succeeds
\* creates the pending record under the key the credential was issued for.
FailedUploadLeavesNothing ==
    \A s \in Slots :
        /\ (UploadEnds(s, "idle") /\ out'.status = 500) =>
            /\ out'.body = Internal /\ files' = files
            /\ slots'[s] = IdleSlot
        /\ (slots[s].pc = "put" /\ slots'[s] # slots[s]) =>
            \/ /\ out'.status = 500 /\ out'.body = Internal
               /\ files' = files /\ slots'[s] = IdleSlot
            \/ /\ UploadRow(files', slots[s]).status = "pending"
               /\ UploadRow(files', slots[s]).s3Key = slots[s].cred.key
               /\ out' # NoOut => out'.status = 200

PageSizeLimits ==
    paging.built =>
        /\ paging.param = NoLimit =>
            paging.sent = (IF paging.kind = "list" THEN 20 ELSE 50)
        /\ (paging.param.kind = "int" /\ paging.param.n \in 1..100) =>
            paging.sent = paging.param.n
        /\ (paging.param.kind = "int" /\ paging.param.n > 100) =>
            paging.sent = 100
        /\ paging.sent <= 100

\* limit=200 on the audit query of the JavaScript handler: 100 was sent.
PageSizeLimitsWitness ==
    /\ paging.built /\ paging.impl = "js" /\ paging.kind = "audit"
    /\ paging.param = IntLimit(200) /\ paging.sent = 100

\* What the walk should yield: the sort keys of the owner's records that
\* are not deleted, or of the owner's entries that match the query.
Remaining ==
    IF walk.kind = "list"
    THEN {f \in FileIds : ItemAt(files, "A", f).status \in {"pending", "uploaded"}}
    ELSE {e.timestamp : e \in Matching(audit, "A", walk.params)}

\* C24: cursor pagination is complete and non-overlapping. With no
\* concurrent writes, calling list (or the audit query with fixed filters)
\* and feeding each nextToken back until none is returned yields every
\* record of the owner that is not deleted (every matching entry) exactly
\* once; a response without nextToken means nothing further remains.
WalkIsComplete ==
    (walk.kind # "" /\ walk.done) =>
        /\ ~walk.failed
        /\ {walk.seen[i] : i \in 1..Len(walk.seen)} = Remaining
        /\ Len(walk.seen) = Cardinality(Remaining)

\* C25: list returns the owner's records most-recent-first. Of any two
\* records of a list response, the one created later (larger createdAt)
\* comes before the one created earlier.
ListedRecentFirst ==
    (Answered("list") /\ out.status = 200) =>
        \A i, j \in 1..Len(out.body.files) :
            out.body.files[i].createdAt > out.body.files[j].createdAt => i < j

\* The page size a query asks for: the limit given, 50 when none is.
AskedPage(p) == IF p.limit.kind = "int" THEN p.limit.n ELSE 50

\* A first-page audit query by GET with no fileId or action filter, and
\* its bounds, if both are given, in order.
RangeQuery(resp) ==
    /\ resp.kind = "audit" /\ resp.userId # NoUser /\ resp.req.method = "GET"
    /\ resp.req.qs.cursor = NoCursor
    /\ resp.req.qs.fileId = 0 /\ resp.req.qs.action = ""
    /\ AskedPage(resp.req.qs) \in 1..100
    /\ (resp.req.qs.startDate # NoTime /\ resp.req.qs.endDate # NoTime)
            => resp.req.qs.startDate <= resp.req.qs.endDate

\* C26: audit-query time range and order. The entries returned are exactly
\* the caller's entries, up to the page limit, whose timestamp lies within
\* the inclusive bounds given (both, one, or none: then all the caller's
\* entries), the most recent ones first, in descending timestamp order.
RangeAndOrder ==
    (out # NoOut /\ RangeQuery(out)) =>
        /\ out.status = 200
        /\ LET logs == out.body.auditLogs
               inRange == {e \in audit :
                            /\ e.userId = out.userId
                            /\ out.req.qs.startDate # NoTime =>
                                    e.timestamp >= out.req.qs.startDate
                            /\ out.req.qs.endDate # NoTime =>
                                    e.timestamp <= out.req.qs.endDate}
               returned == {logs[i] : i \in 1..Len(logs)}
           IN  /\ returned \subseteq inRange
               /\ Len(logs) = Min(Cardinality(inRange), AskedPage(out.req.qs))
               /\ \A i, j \in 1..Len(logs) :
                    i < j => logs[i].timestamp > logs[j].timestamp
               /\ \A e \in inRange \ returned, r \in returned :
                    r.timestamp > e.timestamp

\* C27: audit-query filters. When a fileId filter and/or an action filter
\* is supplied, every entry returned has that fileId and/or that action, in
\* both implementations.
FiltersApplied ==
    (Answered("audit") /\ out.status = 200) =>
        LET p == IF out.req.method = "POST" THEN Effective(out.req)
                 ELSE out.req.qs
        IN  \A i \in 1..Len(out.body.auditLogs) :
                /\ p.fileId # 0 => out.body.auditLogs[i].fileId = p.fileId
                /\ p.action # "" => out.body.auditLogs[i].action = p.action

\* C28: two concurrent soft-deletes of the same record are not mutually
\* excluded. A handler that read a status other than deleted goes on
\* whatever another request has written since: when its update finds the
\* record already deleted it still applies it and reports success, and its
\* delete audit write is made, instead of answering AlreadyDeleted.
DeletesNotExcluded ==
    [][\A s \in Slots :
        LET sl == slots[s]
            deletedByOther ==
                /\ sl.kind = "delete" /\ sl.file.status # "deleted"
                /\ UploadRow(files, sl).status = "deleted"
        IN  /\ (deletedByOther /\ sl.pc = "s3delete" /\ slots'[s] # sl) =>
                slots'[s].pc = "update"
            /\ (deletedByOther /\ sl.pc = "update" /\ slots'[s] # sl) =>
                /\ UploadRow(files', sl).status = "deleted"
                /\ sl.impl = "js" => slots'[s].pc = "audit"
                /\ sl.impl = "go" =>
                    /\ out' = SuccessOf(s, sl)
                    /\ slots'[s].bg =
                        Pending(sl.userId, sl.fileId, "delete",
                                DeleteMeta(sl.file, sl.req.hardDelete))
            /\ (sl.kind = "delete" /\ sl.pc = "audit" /\ slots'[s] # sl) =>
                /\ out' = SuccessOf(s, sl) /\ out'.status = 200
                /\ \E e \in Recorded(audit', sl.userId, sl.fileId, "delete") :
                    e.timestamp \in StampTimes(sl.since)
      ]_vars

\* A soft-delete is answered 200 and the ledger holds two delete entries
\* for its record: the other request succeeded on the same record.
DeletesNotExcludedWitness ==
    /\ Answered("delete") /\ out.status = 200
    /\ Cardinality(Recorded(audit, out.userId, out.req.fileId, "delete")) = 2

\* The attributes a soft-delete does not set.
SameRecord(a, b) ==
    /\ a.fileName = b.fileName /\ a.contentType = b.contentType
    /\ a.fileSize = b.fileSize /\ a.s3Key = b.s3Key
    /\ a.createdAt = b.createdAt

\* Some soft-delete handler of the record is between its read and its end.
DeleteInFlight(sls, userId, fileId) ==
    \E s \in Slots :
        /\ sls[s].kind = "delete"
        /\ sls[s].userId = userId /\ sls[s].fileId = fileId

\* No page of the owner's listing, from the start or from any cursor,
\* carries the record.
OmittedByList(table, userId, fileId) ==
    \A l \in 1..(MaxFiles + 1) :
        \A start \in {NoCursor} \cup {KeyCursor(userId, f) : f \in FileIds} :
            \A i \in DOMAIN QueryFiles(table, userId, l, start).keys :
                QueryFiles(table, userId, l, start).keys[i] # fileId

\* C29: soft-delete is idempotent in effect under concurrency. Whatever the
\* interleaving, the step that ends the last soft-delete in flight on a
\* record leaves it with status deleted, omitted by every page of the
\* listing, and with its other attributes as the handler read them; and a
\* deleted record stays deleted, omitted and otherwise unchanged under
\* every later step.
DeletedInEffect ==
    [][/\ \A s \in Slots :
            LET sl == slots[s]
            IN  (/\ sl.kind = "delete" /\ slots'[s].kind # "delete"
                 /\ ~DeleteInFlight(slots', sl.userId, sl.fileId)) =>
                    /\ UploadRow(files', sl).status = "deleted"
                    /\ OmittedByList(files', sl.userId, sl.fileId)
                    /\ SameRecord(UploadRow(files', sl), sl.file)
       /\ \A k \in DOMAIN files :
            files[k].status = "deleted" =>
                /\ k \in DOMAIN files'
                /\ files'[k].status = "deleted"
                /\ OmittedByList(files', k[1], k[2])
                /\ SameRecord(files'[k], files[k])
      ]_vars

\* Two soft-deletes of one record have both succeeded (the ledger holds
\* both delete entries), every handler has finished and answered, and the
\* record is deleted.
DeletedInEffectWitness ==
    /\ out = NoOut
    /\ \A s \in Slots : slots[s] = IdleSlot
    /\ \E k \in DOMAIN files :
        /\ files[k].status = "deleted"
        /\ Cardinality(Recorded(audit, k[1], k[2], "delete")) = 2

\* The statuses the handlers answer with.
Statuses == {200, 201, 400, 401, 404, 405, 500}

\* C30: a collaborator failure inside a handler (the metadata store, the
\* audit store as the primary operation, the credential issuer) is answered
\* 500 with the fixed body { error: "Internal server error" }: the step in
\* which a handler catches an error answers 500 with exactly that body, which
\* carries nothing of the error; and no other answer is a 500.
FailureIsGenericInternal ==
    [][(out = NoOut /\ out' # NoOut) =>
        /\ out'.status \in Statuses
        /\ (out'.logged # "") <=> (out'.status = 500)
        /\ out'.status = 500 =>
            /\ out'.body = [error |-> "Internal server error"]
            /\ out'.logged \in {"UserFiles", "FileAudit", "presign", "nextToken"}
      ]_vars

\* A soft-delete whose update the metadata store refused is answered with
\* the generic error, the record still not deleted.
FailureIsGenericInternalWitness ==
    /\ Answered("delete") /\ out.status = 500 /\ out.logged = "UserFiles"
    /\ ItemAt(files, out.userId, out.req.fileId).status = "pending"

\* C31: no operation moves a record from pending to uploaded. In every
\* reachable state every record the store holds has status pending or
\* deleted, also after the client has put the file's bytes in the bucket.
NeverUploaded ==
    \A k \in DOMAIN files :
        files[k] # NoItem => files[k].status \in {"pending", "deleted"}

\* The bytes of a file are in the bucket and its record is still pending.
NeverUploadedWitness ==
    \E k \in DOMAIN files :
        /\ files[k].status = "pending"
        /\ files[k].s3Key \in blobs

\* C32: audit timestamps are assigned monotonically at write time. Every
\* entry a step writes to the ledger carries a timestamp not below that of
\* any entry of the same owner the ledger already holds.
StampsMonotonic ==
    [][\A e \in audit' \ audit :
        \A e1 \in audit :
            e1.userId = e.userId => e1.timestamp <= e.timestamp
      ]_vars

\* The value the request context gives for a metadata key.
ContextValue(v) == IF v = "" THEN "unknown" ELSE v

LifecycleFrame ==
    [][/\ \A k \in DOMAIN files :
            files[k] # NoItem =>
                /\ k \in DOMAIN files' /\ files'[k] # NoItem
                /\ SameRecord(files'[k], files[k])
       /\ \A s \in Slots :
            LET sl == slots[s]
            IN  /\ (sl.kind = "delete" /\ slots'[s] # sl) =>
                    \A k \in DOMAIN files :
                        k # <<sl.userId, sl.fileId>> => files'[k] = files[k]
                /\ (sl.kind = "download" /\ slots'[s] # sl) => files' = files
       /\ (out = NoOut /\ out' # NoOut /\ out'.kind \in {"download", "list"}) =>
            files' = files
      ]_vars

\* A soft-delete has succeeded on one record while the owner's other record
\* is stored and still pending.
LifecycleFrameWitness ==
    /\ Answered("delete") /\ out.status = 200
    /\ ItemAt(files, out.userId, out.req.fileId).status = "deleted"
    /\ ItemAt(files, out.userId, out.req.fileId).deletedAt # NoTime
    /\ \E f \in FileIds :
        /\ f # out.req.fileId
        /\ ItemAt(files, out.userId, f).status = "pending"

\* The statuses of input and state-conflict rejections.
Rejections == {400, 401, 404, 405}

\* C35: a request rejected with an input or state-conflict error (401, 400,
\* 404, 405) leaves the metadata store, the audit ledger and the blob store
\* as they were. The step that answers it changes no table, leaves nothing
\* of the request behind (no handler in flight, no deferred audit write, no
\* credential held) and returns no credential.
RejectionIsInert ==
    [][(out = NoOut /\ out' # NoOut /\ out'.status \in Rejections) =>
        /\ files' = files /\ audit' = audit /\ blobs' = blobs
        /\ slots[out'.slot] = IdleSlot
        /\ slots'[out'.slot] = IdleSlot
        /\ "presignedUrl" \notin DOMAIN out'.body
        /\ ops' = ops
      ]_vars

\* A soft-delete of a record already deleted was rejected, with records,
\* entries and blobs in the system.
RejectionIsInertWitness ==
    /\ Answered("delete") /\ out.status = 400 /\ out.body = AlreadyDeleted
    /\ ItemAt(files, out.userId, out.req.fileId).status = "deleted"
    /\ audit # {}

\* C36: a successful soft-delete stamps the record with a single instant:
\* every deleted record has deletedAt equal to updatedAt.
SingleDeleteInstant ==
    \A k \in DOMAIN files :
        files[k].status = "deleted" => files[k].deletedAt = files[k].updatedAt

\* C37 as stated: no download is answered 200 once the soft-delete's
\* transition of its record to deleted has been written.
NoCredentialAfterDelete ==
    (Answered("download") /\ out.status = 200) =>
        ItemAt(files, out.userId, out.req.fileId).status # "deleted"

\* C37 as amended: the download handler decides on the record it read. A
\* handler whose read finds the record deleted answers 404 and holds no
\* credential; every 200 it answers is for a record that was not deleted
\* when the handler read it, whatever has been written since.
NoCredentialForDeletedRead ==
    [][\A s \in Slots :
        LET sl == slots[s]
            answers == out = NoOut /\ out' # NoOut /\ out'.slot = s
                        /\ out'.kind = "download"
        IN  /\ (answers /\ sl.pc = "idle"
                    /\ ItemAt(files, out'.userId, out'.req.fileId).status
                            = "deleted") =>
                (out'.status = 404 /\ slots'[s] = IdleSlot)
            /\ (sl.pc = "idle" /\ slots'[s].kind = "download") =>
                /\ slots'[s].file = ItemAt(files, slots'[s].userId, slots'[s].fileId)
                /\ slots'[s].file.status = "pending"
            /\ (answers /\ out'.status = 200 /\ sl.pc = "audit") =>
                (sl.file.status = "pending" /\ out'.body.presignedUrl = sl.cred)
      ]_vars

\* A download that read its record before a concurrent soft-delete wrote
\* the transition is answered 200 after it.
NoCredentialForDeletedReadWitness ==
    /\ Answered("download") /\ out.status = 200
    /\ ItemAt(files, out.userId, out.req.fileId).status = "deleted"
    /\ out.body.presignedUrl.op = "get"

\* C38: metadata visibility never lags blob removal. The step that ends a
\* soft-delete request whose handler removed the record's blob from the
\* blob store, whatever it answers, leaves the record with status deleted.
VisibilityFollowsRemoval ==
    [][\A s \in Slots :
        LET sl == slots[s]
        IN  (/\ out = NoOut /\ out' # NoOut /\ out'.slot = s
             /\ out'.kind = "delete" /\ sl.removed) =>
                files'[<<sl.userId, sl.fileId>>].status = "deleted"
      ]_vars

\* C39: every record issue-upload persisted satisfies the creation
\* constraints, whatever fileSize the client supplied: its fileSize is
\* between 1 and the maximum and its contentType is in the allow-list.
PersistedWithinConstraints ==
    \A k \in DOMAIN files :
        files[k] # NoItem =>
            /\ 1 <= files[k].fileSize /\ files[k].fileSize <= MAX_FILE_SIZE
            /\ files[k].contentType \in ALLOWED_MIME_TYPES

\* C40: for every limit parameter (absent, zero, negative, not a number,
\* above 100) the page size that list and the audit query pass to the store
\* is an integer between 1 and 100, and the JavaScript and the Go handler
\* pass the same value for the same parameter.
PageSizeWithinRange ==
    paging.built =>
        /\ paging.sent \in 1..MAX_PAGE_SIZE
        /\ \A impl \in Impls :
            paging.sent = QueryLimit(impl, paging.kind, paging.param)

====
